---- MODULE Spec2Model ----
(***************************************************************************)
(* LunchBuddy (src/src/lunchbuddy): the lunch-confirmation window kept in  *)
(* bot_data[LUNCH_CONFIRMATION_KEY] and the two daily jobs that open it    *)
(* (send_lunch_reminders) and close and resolve it                         *)
(* (process_lunch_bookings), interleaved with the callback handler         *)
(* handle_lunch_response on one asyncio event loop.  A step of the model   *)
(* is what one coroutine does between two suspension points (await).       *)
(*                                                                         *)
(* Spec runs the jobs one after the other, SpecOverlap lets the reminder   *)
(* job of the next cycle start during a pass, SpecSchedule follows the     *)
(* wall clock through the (time, days) pairs setup_handlers gives to       *)
(* run_daily.                                                              *)
(* SpecFair is Spec with the fairness of the event loop.  SpecPending is    *)
(* the variant of src/lunchbuddy, in which a scheduler thread and the      *)
(* bot's event loop share the dict pending_confirmations; its steps are    *)
(* what one thread does between two points where the other can act.        *)
(* SpecEnroll is the enrollment conversation with the rows it writes to    *)
(* the users table, SpecVerified runs the two jobs while rows are added,   *)
(* approved, rejected and removed, SpecForm is one BrowserAutomator        *)
(* driving the form in fill_form (processor.py).                           *)
(***************************************************************************)
EXTENDS Integers, FiniteSets, Sequences, TLC

(* ----------------------------- bounds ---------------------------------- *)

\* telegram ids known to the chat transport
NumIds == 2

Ids == 1 .. NumIds

(* --------------------------- program data ------------------------------ *)

\* strftime("%A").lower() of a date whose weekday() is d (Monday is 0)
WeekdayName(d) ==
    CASE d = 0 -> "monday"
      [] d = 1 -> "tuesday"
      [] d = 2 -> "wednesday"
      [] d = 3 -> "thursday"
      [] d = 4 -> "friday"
      [] d = 5 -> "saturday"
      [] OTHER -> "sunday"

\* the days on which the wall clock stands when the booking job runs
ClockDays == {0, 2}

\* preferred_days rows of the users table the runs start from
PreferredDaysChoices == { {}, {"tuesday", "wednesday"} }

\* messages.py texts passed to edit_message_text / send_message
LUNCH_CONFIRMATION_YES == "LUNCH_CONFIRMATION_YES"
LUNCH_CONFIRMATION_NO == "LUNCH_CONFIRMATION_NO"
LUNCH_CONFIRMATION_EXPIRED == "LUNCH_CONFIRMATION_EXPIRED"
LUNCH_TIMEOUT_OPT_IN == "LUNCH_TIMEOUT_OPT_IN"
LUNCH_TIMEOUT_OPT_OUT == "LUNCH_TIMEOUT_OPT_OUT"
NoMessage == "none"

\* variant of PREVIOUS_DAY_MAP: the numbers of the lunch days themselves
SAME_DAY_MAP ==
    [tuesday |-> 2, wednesday |-> 3, thursday |-> 4, friday |-> 5,
     saturday |-> 6, sunday |-> 0, monday |-> 1]

\* PREVIOUS_DAY_MAP: the number run_daily is given for a lunch day; run_daily
\* counts the days of the week from Sunday (0) to Saturday (6)
PREVIOUS_DAY_MAP ==
    [tuesday |-> 1, wednesday |-> 2, thursday |-> 3, friday |-> 4,
     saturday |-> 5, sunday |-> 6, monday |-> 0]

\* scheduler.py day_before_mapping: the day on which the schedule library
\* runs process_lunch_registration for a lunch day
day_before_mapping ==
    [monday |-> "sunday", tuesday |-> "monday", wednesday |-> "tuesday",
     thursday |-> "wednesday", friday |-> "thursday", saturday |-> "friday",
     sunday |-> "saturday"]

\* values of settings.lunch_reminder_time, as the pair map(int, split(":"))
\* yields: the default and a time late in the evening
ReminderTimeChoices == { << 12, 30 >>, << 23, 50 >> }

\* values of settings.lunch_reminder_timeout, in minutes
TimeoutChoices == { 30, 45 }

\* values of settings.lunch_days: the default and two lists with the other days
LunchDaysChoices ==
    { {"tuesday", "wednesday", "thursday"}, {"monday", "friday"}, {"saturday", "sunday"} }

\* no run of a job yet
NoRun == [day |-> -1, minute |-> -1]

\* the set objects on the heap: bot_data rebinds its two keys to fresh
\* objects at every reminder, the booking job keeps references to the old ones
Objs == {0, 1}

\* methods class BrowserAutomator defines
BrowserAutomatorMethods ==
    {"start", "navigate", "fill_text_field", "button_click",
     "is_element_with_text_present", "stop", "fill_form"}

VARIABLES
    window_open,      \* bot_data[KEY]["window_open"]
    positive_obj,     \* heap: contents of the set objects bound to "positive_response"
    negative_obj,     \* heap: contents of the set objects bound to "negative_response"
    cur,              \* the objects bot_data[KEY] is bound to now
    is_enrolled,      \* users table: is_enrolled, per telegram id
    preferred_days,   \* users table: preferred_days, per telegram id
    is_verified,      \* users table: is_verified, per telegram id
    handler,          \* handle_lunch_response suspended at query.answer(): its query.data
    shown,            \* text of the last edit_message_text of the handler, per id
    prompt,           \* send_reminder task of the running reminder job, per id
    reminding,        \* send_lunch_reminders is between its start and gather's return
    reminder_raised,  \* an exception left send_lunch_reminders
    last_job,         \* which daily job the job queue ran last
    resolving,        \* process_lunch_bookings is between its start and gather's return
    pass_obj,         \* the objects yes_responders / no_responders refer to
    users,            \* local users of process_lunch_bookings (ids)
    user_days,        \* user.preferred_days of the rows in users, per id
    tomorrow,         \* local tomorrow of process_lunch_bookings
    task,             \* process_user task, per id
    branch,           \* branch process_user took, per id
    book_calls,       \* number of book_lunch calls of this pass, per id
    form_calls,       \* number of calls that entered a BrowserAutomator method, per id
    timeout_msg,      \* text process_user passed to send_message, per id
    send_raised,      \* send_message of process_user raised, per id
    book_raised,      \* book_lunch raised, per id
    logged_failure,   \* process_user logged "Failed to book lunch", per id
    pass_raised,      \* an exception left process_lunch_bookings
    said,             \* history: choices accepted from each id in the current window
    first,            \* history: first choice accepted from each id in the current window
    said_unenrolled,  \* history: a choice was accepted from the id while it was not enrolled
    opened,           \* history: send_lunch_reminders has opened a window since start-up
    closed_said,      \* history: said at the moment the window was closed
    closed_first,     \* history: first at the moment the window was closed
    lunch_reminder_time,     \* settings.lunch_reminder_time as (hour, minute)
    lunch_reminder_timeout,  \* settings.lunch_reminder_timeout, minutes
    lunch_days,              \* settings.lunch_days
    clock,            \* the wall clock: weekday() of today and minute of the day
    ran_now,          \* the daily jobs the job queue has run at this minute
    reminder_at,      \* history: clock at the last run of the reminder job
    booking_at,       \* history: clock at the last run of the booking job
    window_opened_at, \* history: reminder_at as it was at the last run of the booking job
    event_loop,             \* src/lunchbuddy: LunchBuddyBot.event_loop
    registration_ran,       \* src/lunchbuddy: the scheduler has run process_lunch_registration
    to_prompt,              \* src/lunchbuddy: users the for loop of process_lunch_registration has yet to visit
    target_day,             \* src/lunchbuddy: weekday of the target date (tomorrow_day)
    registration_event,     \* src/lunchbuddy: the registration event of each id
    pending_confirmations,  \* src/lunchbuddy: the entry of (id, target date) in the shared dict
    timeout_jobs,           \* src/lunchbuddy: ids whose timeout check is in the schedule
    timeout_thread,         \* src/lunchbuddy: position of handle_registration_timeout, per id
    timeout_event,          \* src/lunchbuddy: the timeout event of each id
    take_lunch_passed,      \* src/lunchbuddy: take_lunch given to the timeout callback, per id
    response,               \* src/lunchbuddy: position of handle_lunch_response, per id
    answer,                 \* src/lunchbuddy: what the response handler showed last, per id
    register_calls,         \* src/lunchbuddy: number of register_user_for_lunch calls, per id
    key_error,              \* src/lunchbuddy: the functions whose del raised KeyError, per id
    deletions,              \* src/lunchbuddy: number of del statements that removed the entry, per id
    accepted,               \* history: the response that passed the handler's check, per id
    accepted_user,          \* history: whether get_user found the id when that response came
    conversation,           \* state of the enrollment conversation, per id
    full_name,              \* user_data["full_name"] of the conversation, per id
    email,                  \* user_data["email"] of the conversation, per id
    dietary_preference,     \* user_data["dietary_preference"] of the conversation, per id
    selected_days,          \* user_data["selected_days"] of the conversation, per id
    form_pc,                \* fill_form: the call it is about to await, "idle" or "done"
    form_args,              \* fill_form: its arguments
    form_log,               \* history: the calls of the try block that returned, in order
    success,                \* fill_form: the value its return statement holds
    form_returned,          \* what fill_form gave its caller: a value or "raised"
    browser,                \* self.browser: None, an open or a closed browser
    playwright,             \* self.playwright: unset, started or stopped
    stop_calls,             \* number of calls of stop() by this fill_form
    step_raised,            \* history: the step of the try block that raised
    get_started,            \* history: what the click on 'Get Started' found
    thank_you               \* history: what the wait for 'Thank you!' found

vars == << window_open, positive_obj, negative_obj, cur, is_enrolled, preferred_days, is_verified,
           conversation, full_name, email, dietary_preference, selected_days,
           handler, shown, prompt, last_job, reminding, reminder_raised, resolving, pass_obj, users, user_days, tomorrow,
           task, branch, book_calls, form_calls, timeout_msg, send_raised, book_raised,
           logged_failure, pass_raised,
           said, first, said_unenrolled, opened, closed_said, closed_first,
           lunch_reminder_time, lunch_reminder_timeout, lunch_days, clock, ran_now,
           reminder_at, booking_at, window_opened_at,
           event_loop, registration_ran, to_prompt, target_day, registration_event,
           pending_confirmations, timeout_jobs, timeout_thread, timeout_event,
           take_lunch_passed, response, answer, register_calls, key_error, deletions,
           accepted, accepted_user,
           form_pc, form_args, form_log, success, form_returned, browser, playwright,
           stop_calls, step_raised, get_started, thank_you >>

windowVars == << window_open, positive_obj, negative_obj, cur >>
dbVars == << is_enrolled, preferred_days, is_verified >>
convVars == << conversation, full_name, email, dietary_preference, selected_days >>
formVars == << form_pc, form_args, form_log, success, form_returned, browser, playwright,
               stop_calls, step_raised, get_started, thank_you >>
passVars == << resolving, pass_obj, users, user_days, tomorrow, task, branch, book_calls, form_calls,
               timeout_msg, send_raised, book_raised, logged_failure, pass_raised, closed_said, closed_first >>
histVars == << said, first, said_unenrolled, opened >>
settingsVars == << lunch_reminder_time, lunch_reminder_timeout, lunch_days >>
clockVars == << clock, ran_now, reminder_at, booking_at, window_opened_at >>
pendingVars == << event_loop, registration_ran, to_prompt, target_day, registration_event,
                  pending_confirmations, timeout_jobs, timeout_thread, timeout_event,
                  take_lunch_passed, response, answer, register_calls, key_error,
                  deletions, accepted, accepted_user >>

\* bot_data[LUNCH_CONFIRMATION_KEY]["positive_response"]
positive_response == positive_obj[cur]

\* bot_data[LUNCH_CONFIRMATION_KEY]["negative_response"]
negative_response == negative_obj[cur]

\* variant of yes_responders: line 394 reads the key "negative_response"
yes_responders_reads_negative == negative_obj[pass_obj]

\* local yes_responders of process_lunch_bookings: a reference, not a copy
yes_responders == positive_obj[pass_obj]

\* local no_responders of process_lunch_bookings: a reference, not a copy
no_responders == negative_obj[pass_obj]

\* variant of get_enrolled_users: the WHERE clause is missing
get_all_users == Ids

\* db_manager.get_enrolled_users(): rows with is_enrolled AND is_verified
get_enrolled_users == { u \in Ids : is_enrolled[u] /\ is_verified[u] }

window_open_from_start == TRUE

\* line 89: "window_open": False
window_open_at_start == FALSE

\* bot_data, the users table and the tasks when run_polling starts
InitBot ==
    /\ window_open = window_open_at_start
    /\ positive_obj = [o \in Objs |-> {}]
    /\ negative_obj = [o \in Objs |-> {}]
    /\ cur = 0
    /\ is_enrolled = [u \in Ids |-> TRUE]
    /\ preferred_days \in [Ids -> PreferredDaysChoices]
    /\ is_verified = [u \in Ids |-> TRUE]
    /\ conversation = [u \in Ids |-> "END"]
    /\ full_name = [u \in Ids |-> << >>]
    /\ email = [u \in Ids |-> << >>]
    /\ dietary_preference = [u \in Ids |-> "none"]
    /\ selected_days = [u \in Ids |-> {}]
    /\ handler = [u \in Ids |-> "idle"]
    /\ shown = [u \in Ids |-> NoMessage]
    /\ prompt = [u \in Ids |-> "none"]
    /\ reminding = FALSE
    /\ reminder_raised = FALSE
    /\ last_job = "none"
    /\ resolving = FALSE
    /\ pass_obj = 0
    /\ users = {}
    /\ user_days = [u \in Ids |-> {}]
    /\ tomorrow = WeekdayName(0)
    /\ task = [u \in Ids |-> "none"]
    /\ branch = [u \in Ids |-> "none"]
    /\ book_calls = [u \in Ids |-> 0]
    /\ form_calls = [u \in Ids |-> 0]
    /\ timeout_msg = [u \in Ids |-> NoMessage]
    /\ send_raised = [u \in Ids |-> FALSE]
    /\ book_raised = [u \in Ids |-> FALSE]
    /\ logged_failure = [u \in Ids |-> FALSE]
    /\ pass_raised = FALSE
    /\ said = [u \in Ids |-> {}]
    /\ first = [u \in Ids |-> "none"]
    /\ said_unenrolled = [u \in Ids |-> FALSE]
    /\ opened = FALSE
    /\ closed_said = [u \in Ids |-> {}]
    /\ closed_first = [u \in Ids |-> "none"]

\* the bot is started at 00:00 of a Monday, no job has run
InitClock ==
    /\ clock = [day |-> 0, minute |-> 0]
    /\ ran_now = {}
    /\ reminder_at = NoRun
    /\ booking_at = NoRun
    /\ window_opened_at = NoRun

\* src/lunchbuddy: main() has built the bot and the scheduler and started the
\* scheduler thread; run() has not stored the event loop yet
InitPending ==
    /\ event_loop = "None"
    /\ registration_ran = FALSE
    /\ to_prompt = {}
    /\ target_day = WeekdayName(0)
    /\ registration_event = [u \in Ids |-> "none"]
    /\ pending_confirmations = [u \in Ids |-> "absent"]
    /\ timeout_jobs = {}
    /\ timeout_thread = [u \in Ids |-> "idle"]
    /\ timeout_event = [u \in Ids |-> "none"]
    /\ take_lunch_passed = [u \in Ids |-> "none"]
    /\ response = [u \in Ids |-> "idle"]
    /\ answer = [u \in Ids |-> NoMessage]
    /\ register_calls = [u \in Ids |-> 0]
    /\ key_error = [u \in Ids |-> {}]
    /\ deletions = [u \in Ids |-> 0]
    /\ accepted = [u \in Ids |-> "none"]
    /\ accepted_user = [u \in Ids |-> "none"]

\* processor.py lines 12-16: no BrowserAutomator drives the form
InitForm ==
    /\ form_pc = "idle"
    /\ form_args = [ia_url |-> "form_url", email |-> "a@b.co", dietary_preference |-> "Veg"]
    /\ form_log = << >>
    /\ success = "none"
    /\ form_returned = "none"
    /\ browser = "None"
    /\ playwright = "unset"
    /\ stop_calls = 0
    /\ step_raised = "none"
    /\ get_started = "unknown"
    /\ thank_you = "unknown"

\* the default settings of config.py, with the first of the timeouts
Init ==
    /\ InitBot
    /\ InitForm
    /\ InitClock
    /\ InitPending
    /\ lunch_reminder_time = << 12, 30 >>
    /\ lunch_reminder_timeout = 30
    /\ lunch_days = {"tuesday", "wednesday", "thursday"}

(* ------------------------------ job queue ----------------------------- *)

\* lines 96-100: run_daily(send_lunch_reminders, time) on the days before the
\* lunch days; the job alternates with the booking job of lines 109-119 and
\* the schedule's spacing lets each job end before the other one starts
reminder_due == last_job # "reminder" /\ ~reminding /\ ~resolving

\* lines 109-119: run_daily(process_lunch_bookings, time + timeout), same days
booking_due == last_job # "booking" /\ ~reminding /\ ~resolving

(* ------------------------ handle_lunch_response ------------------------ *)

\* variant of record: the test of window_open (line 382) is missing
record_ignores_window(open, data, id, pos, neg) ==
    IF data = "lunch_yes"
    THEN [pos |-> pos \cup {id}, neg |-> neg, text |-> LUNCH_CONFIRMATION_YES]
    ELSE [pos |-> pos, neg |-> neg \cup {id}, text |-> LUNCH_CONFIRMATION_NO]

\* variant of record: lines 384 and 387 add to each other's set
record_swapped(open, data, id, pos, neg) ==
    IF open
    THEN IF data = "lunch_yes"
         THEN [pos |-> pos, neg |-> neg \cup {id}, text |-> LUNCH_CONFIRMATION_YES]
         ELSE [pos |-> pos \cup {id}, neg |-> neg, text |-> LUNCH_CONFIRMATION_NO]
    ELSE [pos |-> pos, neg |-> neg, text |-> LUNCH_CONFIRMATION_EXPIRED]

\* variant of record: line 387 is missing, the NO text is still shown
record_tells_but_drops(open, data, id, pos, neg) ==
    IF open
    THEN IF data = "lunch_yes"
         THEN [pos |-> pos \cup {id}, neg |-> neg, text |-> LUNCH_CONFIRMATION_YES]
         ELSE [pos |-> pos, neg |-> neg, text |-> LUNCH_CONFIRMATION_NO]
    ELSE [pos |-> pos, neg |-> neg, text |-> LUNCH_CONFIRMATION_EXPIRED]

\* lines 382-390: what the handler does with the window once query.answer()
\* has returned; the result is the new contents of the two sets and the
\* text passed to edit_message_text
record(open, data, id, pos, neg) ==
    IF open
    THEN IF data = "lunch_yes"
         THEN [pos |-> pos \cup {id}, neg |-> neg, text |-> LUNCH_CONFIRMATION_YES]
         ELSE IF data = "lunch_no"
              THEN [pos |-> pos, neg |-> neg \cup {id}, text |-> LUNCH_CONFIRMATION_NO]
              ELSE [pos |-> pos, neg |-> neg, text |-> NoMessage]
    ELSE [pos |-> pos, neg |-> neg, text |-> LUNCH_CONFIRMATION_EXPIRED]

\* a callback query matching ^lunch_(yes|no)$ arrives from id u: the handler
\* runs up to "await query.answer()" (lines 378-380)
callback_query(u, data) ==
    /\ handler[u] = "idle"
    /\ handler' = [handler EXCEPT ![u] = data]
    /\ shown' = [shown EXCEPT ![u] = NoMessage]
    /\ UNCHANGED << windowVars, dbVars, prompt, last_job, reminding, reminder_raised, passVars, histVars >>
    /\ UNCHANGED << settingsVars, clockVars, pendingVars, convVars, formVars >>

\* query.answer() raises: the handler ends at line 380, the application's
\* error_handler logs it
query_answer_raises(u) ==
    /\ handler[u] # "idle"
    /\ handler' = [handler EXCEPT ![u] = "idle"]
    /\ UNCHANGED << windowVars, dbVars, shown, prompt, last_job, reminding, reminder_raised, passVars, histVars >>
    /\ UNCHANGED << settingsVars, clockVars, pendingVars, convVars, formVars >>

\* query.answer() returned: lines 381-390, up to the await of edit_message_text
handle_lunch_response(u) ==
    /\ handler[u] # "idle"
    /\ LET r == record(window_open, handler[u], u, positive_response, negative_response)
           choice == IF handler[u] = "lunch_yes" THEN "yes" ELSE "no"
       IN  /\ positive_obj' = [positive_obj EXCEPT ![cur] = r.pos]
           /\ negative_obj' = [negative_obj EXCEPT ![cur] = r.neg]
           /\ shown' = [shown EXCEPT ![u] = r.text]
           /\ said' = IF window_open
                      THEN [said EXCEPT ![u] = @ \cup {choice}]
                      ELSE said
           /\ first' = IF window_open /\ first[u] = "none"
                       THEN [first EXCEPT ![u] = choice]
                       ELSE first
           /\ said_unenrolled' = IF window_open /\ u \notin get_enrolled_users
                                 THEN [said_unenrolled EXCEPT ![u] = TRUE]
                                 ELSE said_unenrolled
           /\ UNCHANGED opened
    /\ handler' = [handler EXCEPT ![u] = "idle"]
    /\ UNCHANGED << window_open, cur, dbVars, prompt, last_job, reminding, reminder_raised, passVars >>
    /\ UNCHANGED << settingsVars, clockVars, pendingVars, convVars, formVars >>

(* ------------------------- send_lunch_reminders ------------------------ *)

\* variant of fresh_object: the sets are emptied in place (set.clear()), the
\* keys stay bound to the objects the booking job refers to
same_object(slot, referenced) == slot

\* lines 348-349: the two keys are bound to new set() objects; the objects
\* they were bound to stay alive while process_lunch_bookings refers to them
fresh_object(slot, referenced) == IF referenced THEN 1 - slot ELSE slot

\* variant of new_set: lines 348-349 are missing, the old contents stay
kept_set(old) == old

\* lines 348-349: set(), whatever the key was bound to before
new_set(old) == {}

\* variant of window_open_after_open: line 350 is missing
window_not_opened(open) == open

\* line 350: the value window_open has after the assignment, which comes
\* before the first await of the job
window_open_after_open(open) == TRUE

\* variant of send_reminder_catches: no try / except around send_message
send_reminder_lets_raise == FALSE

\* lines 354, 367-369: send_reminder wraps its body in try / except Exception
send_reminder_catches == TRUE

\* lines 371-373: one send_reminder task per user of the list, each running
\* up to its send_message
prompts_for(us) == [u \in Ids |-> IF u \in us THEN "sending" ELSE "none"]

\* lines 348-373 up to "await asyncio.gather": the window is opened, the
\* users are read and one send_reminder task per user is at its send_message
open_and_prompt ==
    /\ LET o == fresh_object(cur, resolving)
       IN  /\ cur' = o
           /\ positive_obj' = [positive_obj EXCEPT ![o] = new_set(positive_obj[cur])]
           /\ negative_obj' = [negative_obj EXCEPT ![o] = new_set(negative_obj[cur])]
    /\ window_open' = window_open_after_open(window_open)
    /\ prompt' = prompts_for(get_enrolled_users)
    /\ reminding' = TRUE
    /\ reminder_raised' = FALSE
    /\ last_job' = "reminder"
    /\ said' = [u \in Ids |-> {}]
    /\ first' = [u \in Ids |-> "none"]
    /\ said_unenrolled' = [u \in Ids |-> FALSE]
    /\ opened' = TRUE
    /\ UNCHANGED << dbVars, handler, shown, passVars >>
    /\ UNCHANGED << settingsVars, clockVars, pendingVars, convVars, formVars >>

\* the reminder job of lines 96-100 runs when it is due
send_lunch_reminders == reminder_due /\ open_and_prompt

\* lines 362-369: context.bot.send_message of one send_reminder task returns
\* or raises; the exception is caught and logged
send_reminder(u) ==
    /\ prompt[u] = "sending"
    /\ \E ok \in BOOLEAN :
          /\ prompt' = [prompt EXCEPT ![u] = IF ok THEN "sent" ELSE "failed"]
          /\ reminder_raised' = (reminder_raised \/ (~ok /\ ~send_reminder_catches))
    /\ UNCHANGED << windowVars, dbVars, handler, shown, last_job, reminding, passVars,
                    histVars >>
    /\ UNCHANGED << settingsVars, clockVars, pendingVars, convVars, formVars >>

\* line 373: every send_reminder task has finished, asyncio.gather returns
\* and the reminder job ends
reminders_gathered ==
    /\ reminding
    /\ \A u \in Ids : prompt[u] # "sending"
    /\ reminding' = FALSE
    /\ prompt' = [u \in Ids |-> "none"]
    /\ UNCHANGED << windowVars, dbVars, handler, shown, last_job, reminder_raised,
                    passVars, histVars >>
    /\ UNCHANGED << settingsVars, clockVars, pendingVars, convVars, formVars >>

(* ------------------------ process_lunch_bookings ----------------------- *)

\* variant of resolve: the timeout branch books without the test of line 416
resolve_ignores_preferences(id, yes, no, tmrw, prefs) ==
    IF id \in yes THEN "explicit-yes"
    ELSE IF id \in no THEN "explicit-no"
    ELSE "timeout-opt-in"

\* variant of resolve: the else branch of lines 415-432 is missing, a user
\* in neither set is treated as one who said no
resolve_without_timeout(id, yes, no, tmrw, prefs) ==
    IF id \in yes THEN "explicit-yes" ELSE "explicit-no"

\* lines 406-432: the branch process_user takes for one user
resolve(id, yes, no, tmrw, prefs) ==
    IF id \in yes THEN "explicit-yes"
    ELSE IF id \in no THEN "explicit-no"
    ELSE IF tmrw \in prefs THEN "timeout-opt-in"
    ELSE "timeout-opt-out"

\* variant of process_user_catches: no try / except around the body
process_user_lets_raise == FALSE

\* lines 405, 433-437: process_user wraps its body in try / except Exception
process_user_catches == TRUE

\* variant of book_lunch_results: the awaited call never returns or raises
book_lunch_hangs == {}

\* lines 443-445: book_lunch builds a BrowserAutomator and awaits its run_all
book_lunch_results ==
    IF "run_all" \in BrowserAutomatorMethods THEN {"returned", "raised"} ELSE {"raised"}

\* variant of window_open_after_close: line 393 is missing
window_left_open(open) == open

\* line 393: the value window_open has after the assignment
window_open_after_close(open) == FALSE

\* line 398
tomorrow_of(today) == WeekdayName((today + 1) % 7)

\* the body of process_user ends for u: sent says send_message raised, booked
\* says book_lunch raised; lines 433-437 catch and log either
task_ends(u, sent, booked) ==
    /\ send_raised' = [send_raised EXCEPT ![u] = sent]
    /\ book_raised' = [book_raised EXCEPT ![u] = booked]
    /\ logged_failure' = [logged_failure EXCEPT ![u] =
                              (sent \/ booked) /\ process_user_catches]
    /\ pass_raised' = (pass_raised \/ ((sent \/ booked) /\ ~process_user_catches))
    /\ task' = [task EXCEPT ![u] = "done"]

\* variant of book_lunch: the call is made a second time before the body ends
book_lunch_twice(u) ==
    /\ book_calls' = [book_calls EXCEPT ![u] = @ + 2]
    /\ form_calls' = [form_calls EXCEPT ![u] =
                         IF "run_all" \in BrowserAutomatorMethods THEN @ + 2 ELSE @]
    /\ \E r \in book_lunch_results : task_ends(u, FALSE, r = "raised")

\* lines 410, 424: await self.book_lunch(...), then the body ends
book_lunch(u) ==
    /\ book_calls' = [book_calls EXCEPT ![u] = @ + 1]
    /\ form_calls' = [form_calls EXCEPT ![u] =
                         IF "run_all" \in BrowserAutomatorMethods THEN @ + 1 ELSE @]
    /\ \E r \in book_lunch_results : task_ends(u, FALSE, r = "raised")

\* variant of tasks_for: a task for every id known to the transport
tasks_for_every_id(us) == [u \in Ids |-> "ready"]

\* lines 402-439: one process_user task per user of the list
tasks_for(us) == [u \in Ids |-> IF u \in us THEN "ready" ELSE "none"]

\* lines 393-441 up to "await asyncio.gather": the window is closed, the sets
\* and the users are read, one process_user task per user is created
process_lunch_bookings ==
    /\ booking_due
    /\ window_open' = window_open_after_close(window_open)
    /\ pass_obj' = cur
    /\ users' = get_enrolled_users
    /\ user_days' = [u \in Ids |-> IF u \in get_enrolled_users THEN preferred_days[u] ELSE {}]
    /\ \E today \in ClockDays : tomorrow' = tomorrow_of(today)
    /\ task' = tasks_for(get_enrolled_users)
    /\ pass_raised' = FALSE
    /\ resolving' = TRUE
    /\ last_job' = "booking"
    /\ closed_said' = said
    /\ closed_first' = first
    /\ UNCHANGED << positive_obj, negative_obj, cur, dbVars, handler, shown, prompt,
                    reminding, reminder_raised, branch, book_calls, form_calls, timeout_msg, send_raised,
                    book_raised, logged_failure, histVars >>
    /\ UNCHANGED << settingsVars, clockVars, pendingVars, convVars, formVars >>

\* variant of books: every branch ends in book_lunch
books_always(b) == TRUE

\* lines 410, 424: the branches of process_user that call book_lunch
books(b) == b \in {"explicit-yes", "timeout-opt-in"}

\* variant of timeout_text: the two texts are exchanged
timeout_text_exchanged(b) ==
    IF b = "timeout-opt-in" THEN LUNCH_TIMEOUT_OPT_OUT ELSE LUNCH_TIMEOUT_OPT_IN

\* lines 419, 428: the text a timeout branch passes to send_message
timeout_text(b) ==
    IF b = "timeout-opt-in" THEN LUNCH_TIMEOUT_OPT_IN ELSE LUNCH_TIMEOUT_OPT_OUT

\* lines 404-432: a process_user task runs from its start to its first
\* suspension (send_message) or to its end
process_user(u) ==
    /\ task[u] = "ready"
    /\ LET b == resolve(u, yes_responders, no_responders, tomorrow, user_days[u])
       IN  /\ branch' = [branch EXCEPT ![u] = b]
           /\ \/ /\ b \in {"explicit-yes", "explicit-no"}
                 /\ books(b)
                 /\ book_lunch(u)
                 /\ UNCHANGED timeout_msg
              \/ /\ b \in {"explicit-yes", "explicit-no"}
                 /\ ~books(b)
                 /\ task_ends(u, FALSE, FALSE)
                 /\ UNCHANGED << book_calls, form_calls, timeout_msg >>
              \/ /\ b \in {"timeout-opt-in", "timeout-opt-out"}
                 /\ timeout_msg' = [timeout_msg EXCEPT ![u] = timeout_text(b)]
                 /\ task' = [task EXCEPT ![u] = "sending"]
                 /\ UNCHANGED << book_calls, form_calls, send_raised, book_raised, logged_failure,
                                 pass_raised >>
    /\ UNCHANGED << windowVars, dbVars, handler, shown, prompt, reminding, reminder_raised, last_job,
                    resolving, pass_obj, users, user_days, tomorrow, closed_said, closed_first,
                    histVars >>
    /\ UNCHANGED << settingsVars, clockVars, pendingVars, convVars, formVars >>

\* lines 417-432: send_message of the timeout branch returns or raises; after
\* the opt-in text book_lunch is called
timeout_message_sent(u) ==
    /\ task[u] = "sending"
    /\ \E ok \in BOOLEAN :
          IF ok /\ books(branch[u])
          THEN book_lunch(u)
          ELSE /\ task_ends(u, ~ok, FALSE)
               /\ UNCHANGED << book_calls, form_calls >>
    /\ UNCHANGED << windowVars, dbVars, handler, shown, prompt, reminding, reminder_raised, last_job,
                    resolving, pass_obj, users, user_days, tomorrow, branch, timeout_msg,
                    closed_said, closed_first, histVars >>
    /\ UNCHANGED << settingsVars, clockVars, pendingVars, convVars, formVars >>

\* line 441: every task has finished, asyncio.gather returns and the job ends;
\* its locals are dropped, and with them the last references to set objects
\* that bot_data no longer holds
gather_returns ==
    /\ resolving
    /\ \A u \in users : task[u] = "done"
    /\ resolving' = FALSE
    /\ pass_obj' = cur
    /\ positive_obj' = [o \in Objs |-> IF o = cur THEN positive_obj[o] ELSE {}]
    /\ negative_obj' = [o \in Objs |-> IF o = cur THEN negative_obj[o] ELSE {}]
    /\ users' = {}
    /\ user_days' = [u \in Ids |-> {}]
    /\ tomorrow' = WeekdayName(0)
    /\ task' = [u \in Ids |-> "none"]
    /\ branch' = [u \in Ids |-> "none"]
    /\ book_calls' = [u \in Ids |-> 0]
    /\ form_calls' = [u \in Ids |-> 0]
    /\ timeout_msg' = [u \in Ids |-> NoMessage]
    /\ send_raised' = [u \in Ids |-> FALSE]
    /\ book_raised' = [u \in Ids |-> FALSE]
    /\ logged_failure' = [u \in Ids |-> FALSE]
    /\ closed_said' = [u \in Ids |-> {}]
    /\ closed_first' = [u \in Ids |-> "none"]
    /\ UNCHANGED << window_open, cur, dbVars, handler, shown, prompt, reminding, reminder_raised,
                    last_job, pass_raised, histVars >>
    /\ UNCHANGED << settingsVars, clockVars, pendingVars, convVars, formVars >>

\* the decision a branch of process_user stands for
decision(u) ==
    IF branch[u] \in {"explicit-yes", "timeout-opt-in"} THEN "book"
    ELSE IF branch[u] \in {"explicit-no", "timeout-opt-out"} THEN "skip"
    ELSE "none"

(* --------------------------- unenroll_command -------------------------- *)

\* bot.py lines 332-340, database.py remove_user: is_enrolled = FALSE
unenroll_command(u) ==
    /\ is_enrolled[u]
    /\ is_enrolled' = [is_enrolled EXCEPT ![u] = FALSE]
    /\ UNCHANGED << windowVars, preferred_days, is_verified, handler, shown, prompt, last_job, reminding, reminder_raised,
                    passVars, histVars >>
    /\ UNCHANGED << settingsVars, clockVars, pendingVars, convVars, formVars >>

Next ==
    \/ \E u \in Ids : \E data \in {"lunch_yes", "lunch_no"} : callback_query(u, data)
    \/ \E u \in Ids : query_answer_raises(u)
    \/ \E u \in Ids : handle_lunch_response(u)
    \/ send_lunch_reminders
    \/ \E u \in Ids : send_reminder(u)
    \/ reminders_gathered
    \/ process_lunch_bookings
    \/ \E u \in Ids : process_user(u)
    \/ \E u \in Ids : timeout_message_sent(u)
    \/ gather_returns
    \/ \E u \in Ids : unenroll_command(u)

Spec == Init /\ [][Next]_vars

\* the event loop runs every task that is ready, and every awaited
\* send_message and book_lunch returns or raises: a process_user task that
\* can take a step takes it, and gather returns once all its tasks are done
Fairness ==
    /\ \A u \in Ids : WF_vars(process_user(u))
    /\ \A u \in Ids : WF_vars(timeout_message_sent(u))
    /\ WF_vars(gather_returns)

SpecFair == Spec /\ Fairness

(* ------------------- the next reminder during a pass ------------------- *)

\* lines 96-100 and 109-119: the reminder job comes due again while the tasks
\* of process_lunch_bookings are still suspended at send_message or
\* book_lunch (job_queue runs each job as a task of its own)
reminder_due_during_pass == last_job # "reminder" /\ ~reminding /\ resolving

\* send_lunch_reminders of the next cycle, started during the pass
send_lunch_reminders_during_pass == reminder_due_during_pass /\ open_and_prompt

\* the runs in which the jobs overlap start from one users table, with a
\* user of each kind of preferred days, and the table stays as it is
InitOverlap ==
    /\ Init
    /\ preferred_days = [v \in Ids |-> IF v = 1 THEN {} ELSE {"tuesday", "wednesday"}]

NextOverlap ==
    \/ \E u \in Ids : \E data \in {"lunch_yes", "lunch_no"} : callback_query(u, data)
    \/ \E u \in Ids : query_answer_raises(u)
    \/ \E u \in Ids : handle_lunch_response(u)
    \/ send_lunch_reminders
    \/ send_lunch_reminders_during_pass
    \/ \E u \in Ids : send_reminder(u)
    \/ reminders_gathered
    \/ process_lunch_bookings
    \/ \E u \in Ids : process_user(u)
    \/ \E u \in Ids : timeout_message_sent(u)
    \/ gather_returns

SpecOverlap == InitOverlap /\ [][NextOverlap]_vars

(* ----------------------- the schedule of the jobs ---------------------- *)

\* lines 97-98: time(hour=reminder_hour, minute=reminder_minute), as the
\* minute of the day
reminder_time(hm) == hm[1] * 60 + hm[2]

\* lines 111-117: (datetime.combine(today, time(hour, minute))
\* + timedelta(minutes=timeout)).time(): the date of the sum is dropped
booking_time(hm, timeout) == (reminder_time(hm) + timeout) % 1440

\* lines 99, 118: days=[PREVIOUS_DAY_MAP[day.strip().lower()] for day in lunch_days]
job_days(days) == { PREVIOUS_DAY_MAP[day] : day \in days }

\* the number run_daily has for the day whose weekday() is d
run_daily_day(d) == (d + 1) % 7

\* a job given (time, days) to run_daily is due at this minute
job_due(minute, days) == clock.minute = minute /\ run_daily_day(clock.day) \in days

\* lines 96-100: the job queue runs send_lunch_reminders
reminder_job_runs ==
    /\ "reminder" \notin ran_now
    /\ job_due(reminder_time(lunch_reminder_time), job_days(lunch_days))
    /\ ran_now' = ran_now \cup {"reminder"}
    /\ reminder_at' = clock
    /\ UNCHANGED << windowVars, dbVars, handler, shown, prompt, last_job, reminding,
                    reminder_raised, passVars, histVars, settingsVars, clock,
                    booking_at, window_opened_at, pendingVars, convVars, formVars >>

\* lines 109-119: the job queue runs process_lunch_bookings, which computes
\* tomorrow from datetime.today() (line 398)
booking_job_runs ==
    /\ "booking" \notin ran_now
    /\ job_due(booking_time(lunch_reminder_time, lunch_reminder_timeout),
               job_days(lunch_days))
    /\ ran_now' = ran_now \cup {"booking"}
    /\ booking_at' = clock
    /\ window_opened_at' = reminder_at
    /\ tomorrow' = tomorrow_of(clock.day)
    /\ UNCHANGED << windowVars, dbVars, handler, shown, prompt, last_job, reminding,
                    reminder_raised, resolving, pass_obj, users, user_days, task, branch,
                    book_calls, form_calls, timeout_msg, send_raised, book_raised, logged_failure,
                    pass_raised, closed_said, closed_first, histVars, settingsVars,
                    clock, reminder_at, pendingVars, convVars, formVars >>

\* a minute passes once the jobs due at this minute have run
tick ==
    /\ job_due(reminder_time(lunch_reminder_time), job_days(lunch_days))
          => "reminder" \in ran_now
    /\ job_due(booking_time(lunch_reminder_time, lunch_reminder_timeout),
               job_days(lunch_days))
          => "booking" \in ran_now
    /\ clock' = IF clock.minute = 1439
                THEN [day |-> (clock.day + 1) % 7, minute |-> 0]
                ELSE [clock EXCEPT !.minute = @ + 1]
    /\ ran_now' = {}
    /\ UNCHANGED << windowVars, dbVars, handler, shown, prompt, last_job, reminding,
                    reminder_raised, passVars, histVars, settingsVars,
                    reminder_at, booking_at, window_opened_at, pendingVars, convVars, formVars >>

\* the settings the schedule is computed from, read when setup_handlers runs
InitSchedule ==
    /\ InitBot
    /\ InitForm
    /\ InitPending
    /\ preferred_days = [u \in Ids |-> {}]
    /\ InitClock
    /\ lunch_reminder_time \in ReminderTimeChoices
    /\ lunch_reminder_timeout \in TimeoutChoices
    /\ lunch_days \in LunchDaysChoices

NextSchedule ==
    \/ reminder_job_runs
    \/ booking_job_runs
    \/ tick

SpecSchedule == InitSchedule /\ [][NextSchedule]_vars

(* ------------- src/lunchbuddy: pending confirmations ------------------- *)
(* The scheduler thread (schedule.run_pending in a daemon thread) and the    *)
(* bot's event loop share the dict pending_confirmations.  The runs cover    *)
(* one target date, so a key (user id, target date) is written as the id.   *)

LUNCH_YES == "lunch_yes_"
LUNCH_NO == "lunch_no_"
CONFIRMED == "Your lunch registration has been confirmed."
CANCELLED == "Your lunch registration has been cancelled."
NO_LONGER_ACTIVE == "This confirmation is no longer active or already recorded."

\* db_manager.get_user(user_id): a row comes back only for an enrolled user
get_user(u) == is_enrolled[u]

prompted_always(tomorrow_day, days) == TRUE

\* scheduler.py line 127: tomorrow is one of the user's preferred days
prompted(tomorrow_day, days) == tomorrow_day \in days

take_lunch_never(target, days) == FALSE

\* scheduler.py lines 171-172: the default taken at the timeout
take_lunch(target, days) == target \in days

\* the scheduler thread is between two jobs
scheduler_idle == to_prompt = {} /\ \A u \in Ids : timeout_thread[u] = "idle"

\* bot.py lines 522-527: run() stores the event loop and starts polling
run ==
    /\ event_loop = "None"
    /\ event_loop' = "set"
    /\ UNCHANGED << registration_ran, to_prompt, target_day, registration_event,
                    pending_confirmations, timeout_jobs, timeout_thread, timeout_event,
                    take_lunch_passed, response, answer, register_calls, key_error,
                    deletions, accepted, accepted_user >>
    /\ UNCHANGED << windowVars, dbVars, handler, shown, prompt, last_job, reminding,
                    reminder_raised, passVars, histVars, settingsVars, clockVars, convVars, formVars >>

\* database.py lines 103-118, called by unenroll_command (bot.py 365-379)
remove_user(u) ==
    /\ is_enrolled[u]
    /\ is_enrolled' = [is_enrolled EXCEPT ![u] = FALSE]
    /\ UNCHANGED << preferred_days, is_verified, pendingVars >>
    /\ UNCHANGED << windowVars, handler, shown, prompt, last_job, reminding,
                    reminder_raised, passVars, histVars, settingsVars, clockVars, convVars, formVars >>

\* database.py lines 72-101, called at the end of the enrollment conversation,
\* which enroll_command (bot.py 148-160) starts only for a user get_user does not find
add_user(u, days) ==
    /\ ~get_user(u)
    /\ is_enrolled' = [is_enrolled EXCEPT ![u] = TRUE]
    /\ preferred_days' = [preferred_days EXCEPT ![u] = days]
    /\ UNCHANGED is_verified
    /\ UNCHANGED pendingVars
    /\ UNCHANGED << windowVars, handler, shown, prompt, last_job, reminding,
                    reminder_raised, passVars, histVars, settingsVars, clockVars, convVars, formVars >>

\* scheduler.py lines 113-127: the job reads the enrolled users and tomorrow, and
\* its loop visits the users whose preferred days hold tomorrow
process_lunch_registration ==
    /\ ~registration_ran
    /\ scheduler_idle
    /\ registration_ran' = TRUE
    /\ \E today \in ClockDays :
          /\ target_day' = tomorrow_of(today)
          /\ to_prompt' = { u \in get_enrolled_users :
                               prompted(tomorrow_of(today), preferred_days[u]) }
    /\ UNCHANGED << event_loop, registration_event, pending_confirmations, timeout_jobs,
                    timeout_thread, timeout_event, take_lunch_passed, response, answer,
                    register_calls, key_error, deletions, accepted, accepted_user >>
    /\ UNCHANGED << windowVars, dbVars, handler, shown, prompt, last_job, reminding,
                    reminder_raised, passVars, histVars, settingsVars, clockVars, convVars, formVars >>

\* bot.py lines 446-460: the event is posted to the loop, or dropped with an
\* error log when run() has not stored the loop yet
handle_registration_event(u) ==
    IF event_loop = "None" THEN "dropped" ELSE "queued"

\* bot.py lines 462-480: the same for a timeout event
handle_timeout_event(u) ==
    IF event_loop = "None" THEN "dropped" ELSE "queued"

\* scheduler.py lines 128-142: one turn of the loop: registration_callback(event)
\* and schedule_timeout_check (lines 147-156)
registration_callback(u) ==
    /\ u \in to_prompt
    /\ to_prompt' = to_prompt \ {u}
    /\ registration_event' = [registration_event EXCEPT ![u] = handle_registration_event(u)]
    /\ timeout_jobs' = timeout_jobs \cup {u}
    /\ UNCHANGED << event_loop, registration_ran, target_day, pending_confirmations,
                    timeout_thread, timeout_event, take_lunch_passed, response, answer,
                    register_calls, key_error, deletions, accepted, accepted_user >>
    /\ UNCHANGED << windowVars, dbVars, handler, shown, prompt, last_job, reminding,
                    reminder_raised, passVars, histVars, settingsVars, clockVars, convVars, formVars >>

\* bot.py lines 387-408: the loop runs the posted callback, the task starts and
\* awaits send_message
bot_process_lunch_registration(u) ==
    /\ registration_event[u] = "queued"
    /\ registration_event' = [registration_event EXCEPT ![u] = "sending"]
    /\ UNCHANGED << event_loop, registration_ran, to_prompt, target_day,
                    pending_confirmations, timeout_jobs, timeout_thread, timeout_event,
                    take_lunch_passed, response, answer, register_calls, key_error,
                    deletions, accepted, accepted_user >>
    /\ UNCHANGED << windowVars, dbVars, handler, shown, prompt, last_job, reminding,
                    reminder_raised, passVars, histVars, settingsVars, clockVars, convVars, formVars >>

\* bot.py lines 402-426: send_message returns and the entry is stored, or it
\* raises and the except clause logs
registration_prompt_sent(u) ==
    /\ registration_event[u] = "sending"
    /\ \E ok \in BOOLEAN :
          IF ok
          THEN /\ registration_event' = [registration_event EXCEPT ![u] = "stored"]
               /\ pending_confirmations' = [pending_confirmations EXCEPT ![u] = "waiting"]
          ELSE /\ registration_event' = [registration_event EXCEPT ![u] = "failed"]
               /\ UNCHANGED pending_confirmations
    /\ UNCHANGED << event_loop, registration_ran, to_prompt, target_day, timeout_jobs,
                    timeout_thread, timeout_event, take_lunch_passed, response, answer,
                    register_calls, key_error, deletions, accepted, accepted_user >>
    /\ UNCHANGED << windowVars, dbVars, handler, shown, prompt, last_job, reminding,
                    reminder_raised, passVars, histVars, settingsVars, clockVars, convVars, formVars >>

entry_exists(u) == pending_confirmations[u] # "absent"

\* bot.py line 496: the entry is there and has no response yet
awaiting_response(u) == pending_confirmations[u] = "waiting"

\* bot.py lines 482-508 and 515-520: a button of the prompt is pressed; the
\* handler runs to its first await
lunch_response(u, data) ==
    /\ registration_event[u] \in {"sending", "stored", "failed"}
    /\ IF awaiting_response(u)
       THEN /\ pending_confirmations' = [pending_confirmations EXCEPT ![u] = "received"]
            /\ accepted' = [accepted EXCEPT ![u] = data]
            /\ accepted_user' = [accepted_user EXCEPT ![u] =
                                   IF get_user(u) THEN "found" ELSE "missing"]
            /\ register_calls' = [register_calls EXCEPT ![u] =
                                    IF data = LUNCH_YES /\ get_user(u) THEN @ + 1 ELSE @]
            /\ response' = [response EXCEPT ![u] = "editing"]
            /\ UNCHANGED answer
       ELSE /\ answer' = [answer EXCEPT ![u] = NO_LONGER_ACTIVE]
            /\ UNCHANGED << pending_confirmations, accepted, accepted_user,
                            register_calls, response >>
    /\ UNCHANGED << event_loop, registration_ran, to_prompt, target_day, registration_event,
                    timeout_jobs, timeout_thread, timeout_event, take_lunch_passed,
                    key_error, deletions >>
    /\ UNCHANGED << windowVars, dbVars, handler, shown, prompt, last_job, reminding,
                    reminder_raised, passVars, histVars, settingsVars, clockVars, convVars, formVars >>

\* bot.py lines 509-514: edit_message_text returns and the entry is deleted, or
\* it raises and the exception leaves the handler
edit_message_text_returns(u) ==
    /\ response[u] = "editing"
    /\ response' = [response EXCEPT ![u] = "idle"]
    /\ \E ok \in BOOLEAN :
          IF ok
          THEN /\ answer' = [answer EXCEPT ![u] =
                               IF accepted[u] = LUNCH_YES THEN CONFIRMED ELSE CANCELLED]
               /\ IF pending_confirmations[u] # "absent"
                  THEN /\ pending_confirmations' =
                             [pending_confirmations EXCEPT ![u] = "absent"]
                       /\ deletions' = [deletions EXCEPT ![u] = @ + 1]
                       /\ UNCHANGED key_error
                  ELSE /\ key_error' = [key_error EXCEPT ![u] =
                                          @ \cup {"handle_lunch_response"}]
                       /\ UNCHANGED << pending_confirmations, deletions >>
          ELSE UNCHANGED << answer, pending_confirmations, deletions, key_error >>
    /\ UNCHANGED << event_loop, registration_ran, to_prompt, target_day, registration_event,
                    timeout_jobs, timeout_thread, timeout_event, take_lunch_passed,
                    register_calls, accepted, accepted_user >>
    /\ UNCHANGED << windowVars, dbVars, handler, shown, prompt, last_job, reminding,
                    reminder_raised, passVars, histVars, settingsVars, clockVars, convVars, formVars >>

\* scheduler.py lines 158-165: the schedule runs the timeout check of u, which
\* goes on when the entry is there and has no response
handle_registration_timeout(u) ==
    /\ scheduler_idle
    /\ u \in timeout_jobs
    /\ pending_confirmations[u] = "waiting"
    /\ timeout_thread' = [timeout_thread EXCEPT ![u] = "checked"]
    /\ UNCHANGED << event_loop, registration_ran, to_prompt, target_day, registration_event,
                    pending_confirmations, timeout_jobs, timeout_event, take_lunch_passed,
                    response, answer, register_calls, key_error, deletions, accepted, accepted_user >>
    /\ UNCHANGED << windowVars, dbVars, handler, shown, prompt, last_job, reminding,
                    reminder_raised, passVars, histVars, settingsVars, clockVars, convVars, formVars >>

\* scheduler.py lines 166-192: get_user, the default, the timeout callback, del
\* and schedule.clear; a KeyError of del is caught by the except clause, which
\* leaves the timeout check in the schedule
timeout_default(u) ==
    /\ timeout_thread[u] = "checked"
    /\ timeout_thread' = [timeout_thread EXCEPT ![u] = "idle"]
    /\ IF get_user(u)
       THEN /\ register_calls' = [register_calls EXCEPT ![u] =
                                    IF take_lunch(target_day, preferred_days[u])
                                    THEN @ + 1 ELSE @]
            /\ timeout_event' = [timeout_event EXCEPT ![u] = handle_timeout_event(u)]
            /\ take_lunch_passed' = [take_lunch_passed EXCEPT ![u] =
                                       IF take_lunch(target_day, preferred_days[u])
                                       THEN "true" ELSE "false"]
            /\ IF pending_confirmations[u] # "absent"
               THEN /\ pending_confirmations' =
                          [pending_confirmations EXCEPT ![u] = "absent"]
                    /\ deletions' = [deletions EXCEPT ![u] = @ + 1]
                    /\ timeout_jobs' = timeout_jobs \ {u}
                    /\ UNCHANGED key_error
               ELSE /\ key_error' = [key_error EXCEPT ![u] =
                                       @ \cup {"handle_registration_timeout"}]
                    /\ UNCHANGED << pending_confirmations, deletions, timeout_jobs >>
       ELSE UNCHANGED << register_calls, timeout_event, take_lunch_passed,
                         pending_confirmations, deletions, timeout_jobs, key_error >>
    /\ UNCHANGED << event_loop, registration_ran, to_prompt, target_day, registration_event,
                    response, answer, accepted, accepted_user >>
    /\ UNCHANGED << windowVars, dbVars, handler, shown, prompt, last_job, reminding,
                    reminder_raised, passVars, histVars, settingsVars, clockVars, convVars, formVars >>

\* bot.py lines 428-444: the loop runs the posted callback and the notification
\* task sends its message, or logs that it failed
send_timeout_notification(u) ==
    /\ timeout_event[u] = "queued"
    /\ \E ok \in BOOLEAN :
          timeout_event' = [timeout_event EXCEPT ![u] = IF ok THEN "sent" ELSE "failed"]
    /\ UNCHANGED << event_loop, registration_ran, to_prompt, target_day, registration_event,
                    pending_confirmations, timeout_jobs, timeout_thread, take_lunch_passed,
                    response, answer, register_calls, key_error, deletions, accepted, accepted_user >>
    /\ UNCHANGED << windowVars, dbVars, handler, shown, prompt, last_job, reminding,
                    reminder_raised, passVars, histVars, settingsVars, clockVars, convVars, formVars >>

NextPending ==
    \/ run
    \/ process_lunch_registration
    \/ \E u \in Ids : registration_callback(u)
    \/ \E u \in Ids : bot_process_lunch_registration(u)
    \/ \E u \in Ids : registration_prompt_sent(u)
    \/ \E u \in Ids, data \in {LUNCH_YES, LUNCH_NO} : lunch_response(u, data)
    \/ \E u \in Ids : edit_message_text_returns(u)
    \/ \E u \in Ids : handle_registration_timeout(u)
    \/ \E u \in Ids : timeout_default(u)
    \/ \E u \in Ids : send_timeout_notification(u)
    \/ \E u \in Ids : remove_user(u)
    \/ \E u \in Ids, days \in PreferredDaysChoices : add_user(u, days)

SpecPending == Init /\ [][NextPending]_vars

(* ------------------ the enrollment conversation ------------------------ *)
(* bot.py lines 62-81: a ConversationHandler with the states NAME, EMAIL,   *)
(* DIETARY_PREFERENCE and DAYS; "END" is ConversationHandler.END.  A text   *)
(* is a sequence of characters, a callback datum a sequence of tokens.      *)

Letters == {"a", "b", "c", "l", "o"}
Digits == {"1"}

\* the texts the runs send in the states NAME and EMAIL
NameTexts == { << "a" >>, << "a", "l" >>, << " ", "a", " " >>, << " ", "a", "l", " " >> }
EmailTexts == { << "a", "@", "b", ".", "c", "o" >>,
                << "A", "@", "b", ".", "c", "o" >>,
                << "a", "@", "b", ".", "c" >>,
                << "a", "@", "b", ".", "c", "1" >>,
                << "a", "b", ".", "c", "o" >>,
                << "@", "b", ".", "c", "o" >>,
                << "a", "@", ".", "c", "o" >> }

\* the callback data the runs send: the buttons of the two keyboards and the
\* Yes button of a reminder that is still in the chat
DietData == { << "diet_veg" >>, << "diet_non_veg" >>, << "lunch_yes" >> }
DaysData == { << "days_done" >>, << "lunch_yes" >> }
                \cup { << "day_", d >> : d \in {"tuesday", "wednesday"} }

RECURSIVE lstrip(_)
lstrip(s) == IF s # << >> /\ Head(s) = " " THEN lstrip(Tail(s)) ELSE s

RECURSIVE rstrip(_)
rstrip(s) == IF s # << >> /\ s[Len(s)] = " " THEN rstrip(SubSeq(s, 1, Len(s) - 1)) ELSE s

\* str.strip()
strip(s) == rstrip(lstrip(s))

\* str.lower()
lower(s) == [i \in 1 .. Len(s) |-> IF s[i] = "A" THEN "a" ELSE s[i]]

\* line 170: the name is kept unless len(name) < 2
name_accepted(name) == ~(Len(name) < 2)

\* line 184: ^[a-zA-Z0-9._%+-]+@[a-zA-Z0-9.-]+\.[a-zA-Z]{2,}$
email_pattern(s) ==
    \E i \in 1 .. Len(s), j \in 1 .. Len(s) :
       /\ s[i] = "@"
       /\ i > 1
       /\ \A k \in 1 .. i - 1 : s[k] \in Letters \cup Digits \cup {"A", ".", "_", "%", "+", "-"}
       /\ s[j] = "."
       /\ j > i + 1
       /\ \A k \in i + 1 .. j - 1 : s[k] \in Letters \cup Digits \cup {"A", ".", "-"}
       /\ Len(s) - j >= 2
       /\ \A k \in j + 1 .. Len(s) : s[k] \in Letters \cup {"A"}

\* line 304: query.data.replace("day_", "")
day_name(data) == SelectSeq(data, LAMBDA t : t # "day_")[1]

\* context.user_data.clear()
user_data_cleared(u) ==
    /\ full_name' = [full_name EXCEPT ![u] = << >>]
    /\ email' = [email EXCEPT ![u] = << >>]
    /\ dietary_preference' = [dietary_preference EXCEPT ![u] = "none"]
    /\ selected_days' = [selected_days EXCEPT ![u] = {}]

\* lines 150-164: /enroll outside a conversation, from a user get_user does
\* not find
enroll_command(u) ==
    /\ conversation[u] = "END"
    /\ u \notin get_enrolled_users
    /\ conversation' = [conversation EXCEPT ![u] = "NAME"]
    /\ UNCHANGED << full_name, email, dietary_preference, selected_days >>
    /\ UNCHANGED << windowVars, dbVars, handler, shown, prompt, last_job, reminding,
                    reminder_raised, passVars, histVars, settingsVars, clockVars,
                    pendingVars, formVars >>

\* lines 166-178
get_name(u, text) ==
    /\ conversation[u] = "NAME"
    /\ name_accepted(strip(text))
    /\ full_name' = [full_name EXCEPT ![u] = strip(text)]
    /\ conversation' = [conversation EXCEPT ![u] = "EMAIL"]
    /\ UNCHANGED << email, dietary_preference, selected_days >>
    /\ UNCHANGED << windowVars, dbVars, handler, shown, prompt, last_job, reminding,
                    reminder_raised, passVars, histVars, settingsVars, clockVars,
                    pendingVars, formVars >>

\* lines 180-204
get_email(u, text) ==
    /\ conversation[u] = "EMAIL"
    /\ email_pattern(lower(strip(text)))
    /\ email' = [email EXCEPT ![u] = lower(strip(text))]
    /\ conversation' = [conversation EXCEPT ![u] = "DIETARY_PREFERENCE"]
    /\ UNCHANGED << full_name, dietary_preference, selected_days >>
    /\ UNCHANGED << windowVars, dbVars, handler, shown, prompt, last_job, reminding,
                    reminder_raised, passVars, histVars, settingsVars, clockVars,
                    pendingVars, formVars >>

\* lines 229-254: any callback query is taken in this state
get_dietary_preference(u, data) ==
    /\ conversation[u] = "DIETARY_PREFERENCE"
    /\ dietary_preference' = [dietary_preference EXCEPT ![u] =
                                 IF data = << "diet_veg" >> THEN "veg" ELSE "non_veg"]
    /\ selected_days' = [selected_days EXCEPT ![u] = {}]
    /\ conversation' = [conversation EXCEPT ![u] = "DAYS"]
    /\ UNCHANGED << full_name, email >>
    /\ UNCHANGED << windowVars, dbVars, handler, shown, prompt, last_job, reminding,
                    reminder_raised, passVars, histVars, settingsVars, clockVars,
                    pendingVars, formVars >>

days_done_always(selected) == TRUE

\* line 265: "if not selected_days" sends the keyboard again
days_done_accepted(selected) == selected # {}

verified_kept_after_add(u) == is_verified

\* database.py line 89: DO UPDATE SET ... is_verified = FALSE
verified_after_add(u) == [is_verified EXCEPT ![u] = FALSE]

\* database.py lines 73-106: the row is written with is_enrolled TRUE and
\* is_verified FALSE, or the statement fails and nothing is written
add_user_row(u, days) ==
    \E ok \in BOOLEAN :
       IF ok
       THEN /\ is_enrolled' = [is_enrolled EXCEPT ![u] = TRUE]
            /\ is_verified' = verified_after_add(u)
            /\ preferred_days' = [preferred_days EXCEPT ![u] = days]
       ELSE UNCHANGED dbVars

\* lines 256-323: any callback query is taken in this state: "days_done" ends
\* the conversation with add_user when days are selected, any other datum
\* toggles its name in selected_days
get_preferred_days(u, data) ==
    /\ conversation[u] = "DAYS"
    /\ IF data = << "days_done" >>
       THEN /\ days_done_accepted(selected_days[u])
            /\ add_user_row(u, selected_days[u])
            /\ user_data_cleared(u)
            /\ conversation' = [conversation EXCEPT ![u] = "END"]
       ELSE /\ selected_days' = [selected_days EXCEPT ![u] =
                                   IF day_name(data) \in @
                                   THEN @ \ {day_name(data)}
                                   ELSE @ \cup {day_name(data)}]
            /\ UNCHANGED << dbVars, conversation, full_name, email, dietary_preference >>
    /\ UNCHANGED << windowVars, handler, shown, prompt, last_job, reminding,
                    reminder_raised, passVars, histVars, settingsVars, clockVars,
                    pendingVars, formVars >>

\* lines 325-330: /cancel in any state of the conversation
cancel_enrollment(u) ==
    /\ conversation[u] # "END"
    /\ user_data_cleared(u)
    /\ conversation' = [conversation EXCEPT ![u] = "END"]
    /\ UNCHANGED << windowVars, dbVars, handler, shown, prompt, last_job, reminding,
                    reminder_raised, passVars, histVars, settingsVars, clockVars,
                    pendingVars, formVars >>

\* database.py lines 217-235: is_verified = TRUE where is_enrolled = TRUE
approve_user(u) ==
    /\ is_enrolled[u]
    /\ ~is_verified[u]
    /\ is_verified' = [is_verified EXCEPT ![u] = TRUE]
    /\ UNCHANGED << is_enrolled, preferred_days >>
    /\ UNCHANGED << windowVars, handler, shown, prompt, last_job, reminding,
                    reminder_raised, passVars, histVars, settingsVars, clockVars,
                    pendingVars, convVars, formVars >>

\* database.py lines 237-255: is_enrolled = FALSE, is_verified = FALSE
reject_user(u) ==
    /\ is_enrolled[u] \/ is_verified[u]
    /\ is_enrolled' = [is_enrolled EXCEPT ![u] = FALSE]
    /\ is_verified' = [is_verified EXCEPT ![u] = FALSE]
    /\ UNCHANGED preferred_days
    /\ UNCHANGED << windowVars, handler, shown, prompt, last_job, reminding,
                    reminder_raised, passVars, histVars, settingsVars, clockVars,
                    pendingVars, convVars, formVars >>

NextConversation ==
    \/ \E u \in Ids : enroll_command(u)
    \/ \E u \in Ids, text \in NameTexts : get_name(u, text)
    \/ \E u \in Ids, text \in EmailTexts : get_email(u, text)
    \/ \E u \in Ids, data \in DietData : get_dietary_preference(u, data)
    \/ \E u \in Ids, data \in DaysData : get_preferred_days(u, data)
    \/ \E u \in Ids : cancel_enrollment(u)
    \/ \E u \in Ids : approve_user(u)
    \/ \E u \in Ids : reject_user(u)
    \/ \E u \in Ids : unenroll_command(u)

SpecEnroll == Init /\ [][NextConversation]_vars

(* ------------- the two triggers and the rows of the users table -------- *)
\* the daily jobs of bot.py lines 92-119 run while users enroll through the
\* conversation, leave with /unenroll, and the rows are approved or rejected
\* in the database; the texts and buttons are those the conversation accepts
NextVerified ==
    \/ send_lunch_reminders
    \/ \E u \in Ids : send_reminder(u)
    \/ reminders_gathered
    \/ process_lunch_bookings
    \/ \E u \in Ids : process_user(u)
    \/ \E u \in Ids : timeout_message_sent(u)
    \/ gather_returns
    \/ \E u \in Ids : enroll_command(u)
    \/ \E u \in Ids : get_name(u, << "a", "l" >>)
    \/ \E u \in Ids : get_email(u, << "a", "@", "b", ".", "c", "o" >>)
    \/ \E u \in Ids : get_dietary_preference(u, << "diet_veg" >>)
    \/ \E u \in Ids, data \in {<< "days_done" >>, << "day_", "wednesday" >>} :
          get_preferred_days(u, data)
    \/ \E u \in Ids : approve_user(u)
    \/ \E u \in Ids : reject_user(u)
    \/ \E u \in Ids : unenroll_command(u)

SpecVerified == Init /\ [][NextVerified]_vars

(* ---------------------- BrowserAutomator.fill_form --------------------- *)
\* processor.py: one BrowserAutomator drives the form once.  A step is the
\* code between two awaits; every awaited Playwright call returns or raises.

\* models.py lines 11-12: the values of DietaryPreference
DietaryPreferenceValues == {"Veg", "Non Veg"}

\* the arguments of the calls: (ia_url, email, dietary_preference.value)
FillFormArgs ==
    { [ia_url |-> "form_url", email |-> "a@b.co", dietary_preference |-> d] :
         d \in DietaryPreferenceValues }

\* lines 18-27: how far start gets before it returns or raises
StartOutcomes == {"ok", "playwright_raises", "launch_raises", "context_raises"}

\* lines 56-90 in the order of the calls fill_form awaits
NextStep ==
    [start |-> "navigate", navigate |-> "get_started", get_started |-> "fill_email",
     fill_email |-> "next", next |-> "yes", yes |-> "dietary",
     dietary |-> "next_submit", next_submit |-> "thank_you", thank_you |-> "finally"]

\* variant of finally_clause: the function has no finally clause
no_finally_clause == "done"

\* lines 103-105: the finally clause runs stop() on every way out of the try
finally_clause == "stop"

\* variant of confirmation_result: the missing confirmation is only logged
confirmation_ignored(found) == "true"

\* lines 90-97: success decides between "return False" and "return True"
confirmation_result(found) == IF found THEN "true" ELSE "false"

\* a call of the try block has returned (call recorded) or has raised, which
\* the except clause of lines 99-101 turns into "return False"
step_ends(step, call, ok) ==
    IF ok
    THEN /\ form_log' = Append(form_log, call)
         /\ form_pc' = IF NextStep[step] = "finally" THEN finally_clause ELSE NextStep[step]
         /\ UNCHANGED << success, step_raised >>
    ELSE /\ success' = "false"
         /\ step_raised' = step
         /\ form_pc' = finally_clause
         /\ UNCHANGED form_log

\* the state of the bot and of its database, which fill_form does not touch
botVars ==
    << windowVars, dbVars, convVars, handler, shown, prompt, last_job, reminding,
       reminder_raised, passVars, histVars, settingsVars, clockVars, pendingVars >>

\* lines 12-16 and 56-59: a new BrowserAutomator, and fill_form is called on it
fill_form(args) ==
    /\ form_pc \in {"idle", "done"}
    /\ form_pc' = "start"
    /\ form_args' = args
    /\ form_log' = << >>
    /\ success' = "none"
    /\ form_returned' = "none"
    /\ browser' = "None"
    /\ playwright' = "unset"
    /\ stop_calls' = 0
    /\ step_raised' = "none"
    /\ get_started' = "unknown"
    /\ thank_you' = "unknown"
    /\ UNCHANGED botVars

\* lines 18-27, called at line 60
start(outcome) ==
    /\ form_pc = "start"
    /\ playwright' = IF outcome = "playwright_raises" THEN "unset" ELSE "started"
    /\ browser' = IF outcome \in {"ok", "context_raises"} THEN "open" ELSE "None"
    /\ step_ends("start", << "start" >>, outcome = "ok")
    /\ UNCHANGED << form_args, form_returned, stop_calls, get_started, thank_you >>
    /\ UNCHANGED botVars

\* lines 29-30, called at line 63
navigate(ok) ==
    /\ form_pc = "navigate"
    /\ step_ends("navigate", << "navigate", form_args.ia_url >>, ok)
    /\ UNCHANGED << form_args, form_returned, browser, playwright, stop_calls,
                    get_started, thank_you >>
    /\ UNCHANGED botVars

\* lines 66-71: the click on 'Get Started' returns, times out, which is
\* caught and logged, or raises another exception
click_get_started(outcome) ==
    /\ form_pc = "get_started"
    /\ \/ /\ outcome = "clicked"
          /\ get_started' = "clicked"
          /\ step_ends("get_started", << "click", "Get Started" >>, TRUE)
       \/ /\ outcome = "timeout"
          /\ get_started' = "absent"
          /\ form_pc' = NextStep["get_started"]
          /\ UNCHANGED << form_log, success, step_raised >>
       \/ /\ outcome = "raises"
          /\ UNCHANGED get_started
          /\ step_ends("get_started", << >>, FALSE)
    /\ UNCHANGED << form_args, form_returned, browser, playwright, stop_calls, thank_you >>
    /\ UNCHANGED botVars

\* lines 32-33, called at lines 73-75
fill_text_field(ok) ==
    /\ form_pc = "fill_email"
    /\ step_ends("fill_email", << "fill_text_field", form_args.email >>, ok)
    /\ UNCHANGED << form_args, form_returned, browser, playwright, stop_calls,
                    get_started, thank_you >>
    /\ UNCHANGED botVars

\* lines 78, 81, 84, 87: the text of the element the call clicks
button_text(step) ==
    CASE step = "next" -> "Next"
      [] step = "yes" -> "Yes"
      [] step = "dietary" -> form_args.dietary_preference
      [] step = "next_submit" -> "Next"

\* lines 35-36, called at lines 78, 81, 84 and 87
button_click(ok) ==
    /\ form_pc \in {"next", "yes", "dietary", "next_submit"}
    /\ step_ends(form_pc, << "button_click", button_text(form_pc) >>, ok)
    /\ UNCHANGED << form_args, form_returned, browser, playwright, stop_calls,
                    get_started, thank_you >>
    /\ UNCHANGED botVars

\* lines 38-48, called at line 90: the element appears, or the wait times out
\* or raises, which the method turns into False; lines 91-97 follow
is_element_with_text_present(outcome) ==
    /\ form_pc = "thank_you"
    /\ thank_you' = IF outcome = "found" THEN "present" ELSE "absent"
    /\ success' = confirmation_result(outcome = "found")
    /\ form_log' = Append(form_log, << "is_element_with_text_present", "Thank you!" >>)
    /\ form_pc' = finally_clause
    /\ UNCHANGED << form_args, form_returned, browser, playwright, stop_calls,
                    step_raised, get_started >>
    /\ UNCHANGED botVars

\* lines 50-54, called at line 104: browser.close() if a browser was
\* launched, then playwright.stop() if Playwright was started; a call that
\* raises ends stop and leaves fill_form as an exception.  Whether a browser
\* whose close() raised is still open is not known.
stop(close_ok, stop_ok, still_open) ==
    /\ form_pc = "stop"
    /\ stop_calls' = stop_calls + 1
    /\ form_pc' = "done"
    /\ IF browser = "open" /\ ~close_ok
       THEN /\ browser' = IF still_open THEN "open" ELSE "closed"
            /\ UNCHANGED playwright
            /\ form_returned' = "raised"
       ELSE /\ browser' = IF browser = "open" THEN "closed" ELSE browser
            /\ IF playwright = "started" /\ ~stop_ok
               THEN /\ UNCHANGED playwright
                    /\ form_returned' = "raised"
               ELSE /\ playwright' = IF playwright = "started" THEN "stopped" ELSE playwright
                    /\ form_returned' = success
    /\ UNCHANGED << form_args, form_log, success, step_raised, get_started, thank_you >>
    /\ UNCHANGED botVars

NextForm ==
    \/ \E args \in FillFormArgs : fill_form(args)
    \/ \E outcome \in StartOutcomes : start(outcome)
    \/ \E ok \in BOOLEAN : navigate(ok)
    \/ \E outcome \in {"clicked", "timeout", "raises"} : click_get_started(outcome)
    \/ \E ok \in BOOLEAN : fill_text_field(ok)
    \/ \E ok \in BOOLEAN : button_click(ok)
    \/ \E outcome \in {"found", "timeout", "raises"} : is_element_with_text_present(outcome)
    \/ \E close_ok, stop_ok, still_open \in BOOLEAN : stop(close_ok, stop_ok, still_open)

SpecForm == Init /\ [][NextForm]_vars

(* ------------------------------- claims -------------------------------- *)

\* u's process_user task has taken its branch in the running pass
Resolved(u) == resolving /\ u \in users /\ task[u] \in {"sending", "done"}

\* u's process_user task has ended in the running pass
Finished(u) == resolving /\ u \in users /\ task[u] = "done"

\* C1: a handler step taken while window_open is false shows the Expired
\* text and changes neither of the two sets nor window_open.
C1_ExpiredNoMutation ==
    [][\A u \in Ids :
          (handle_lunch_response(u) /\ ~window_open)
          => /\ shown'[u] = LUNCH_CONFIRMATION_EXPIRED
             /\ positive_response' = positive_response
             /\ negative_response' = negative_response
             /\ window_open' = window_open]_vars

\* C1 witness: after a cycle that recorded a response, a late responder has
\* been shown Expired and is in neither set
C1_Witness ==
    \E u \in Ids :
       /\ shown[u] = LUNCH_CONFIRMATION_EXPIRED
       /\ ~window_open
       /\ last_job = "booking"
       /\ u \notin positive_response \cup negative_response
       /\ positive_response \cup negative_response # {}

\* C2: a handler step taken while window_open is true puts the id into
\* positive_response on lunch_yes and into negative_response on lunch_no,
\* shows the matching text, and leaves the membership of every other id alone.
C2_RecordedInOpenWindow ==
    [][\A u \in Ids :
          (handle_lunch_response(u) /\ window_open)
          => /\ handler[u] = "lunch_yes"
                => /\ u \in positive_response'
                   /\ shown'[u] = LUNCH_CONFIRMATION_YES
             /\ handler[u] = "lunch_no"
                => /\ u \in negative_response'
                   /\ shown'[u] = LUNCH_CONFIRMATION_NO
             /\ \A v \in Ids \ {u} :
                   /\ (v \in positive_response') = (v \in positive_response)
                   /\ (v \in negative_response') = (v \in negative_response)]_vars

\* C2 witness: one id recorded YES and another recorded NO in an open window
C2_Witness ==
    \E u, v \in Ids :
       /\ window_open
       /\ shown[u] = LUNCH_CONFIRMATION_YES /\ u \in positive_response
       /\ shown[v] = LUNCH_CONFIRMATION_NO /\ v \in negative_response
       /\ u \notin negative_response

\* C3: an enrolled user whose YES was accepted in the window the pass closed
\* is resolved to book by the explicit-yes branch, book_lunch is called for
\* that user, and no timeout text is sent to that user.
C3_YesIsBooked ==
    \A u \in Ids :
       (Finished(u) /\ "yes" \in closed_said[u])
       => /\ branch[u] = "explicit-yes"
          /\ decision(u) = "book"
          /\ book_calls[u] = 1
          /\ timeout_msg[u] = NoMessage

\* C3 witness: a user whose preferred days do not contain tomorrow said YES
\* and has been booked
C3_Witness ==
    \E u \in Ids :
       /\ Finished(u)
       /\ closed_said[u] = {"yes"}
       /\ tomorrow \notin preferred_days[u]
       /\ book_calls[u] = 1

\* C4: an enrolled user whose NO was accepted in the window the pass closed
\* is resolved to skip: book_lunch is not called for that user.
C4_NoIsSkipped ==
    \A u \in Ids :
       (Finished(u) /\ "no" \in closed_said[u])
       => /\ decision(u) = "skip"
          /\ book_calls[u] = 0

\* C5: an enrolled user with no response accepted in the window is resolved
\* to book exactly when tomorrow's weekday name is in the user's preferred
\* days and to skip otherwise (always skip for empty preferred days), and the
\* timeout text sent names that default.
C5_TimeoutDefault ==
    \A u \in Ids :
       (Resolved(u) /\ closed_said[u] = {})
       => /\ (decision(u) = "book") = (tomorrow \in preferred_days[u])
          /\ (decision(u) = "skip") = (tomorrow \notin preferred_days[u])
          /\ preferred_days[u] = {} => decision(u) = "skip"
          /\ timeout_msg[u] = IF tomorrow \in preferred_days[u]
                              THEN LUNCH_TIMEOUT_OPT_IN
                              ELSE LUNCH_TIMEOUT_OPT_OUT
          /\ book_calls[u] = 1 => tomorrow \in preferred_days[u]

\* C5 witness: in one pass a silent user is resolved to book, a silent user
\* with empty preferred days to skip
C5_Witness ==
    \E u, v \in Ids :
       /\ Finished(u) /\ closed_said[u] = {}
       /\ decision(u) = "book" /\ book_calls[u] = 1
       /\ Finished(v) /\ closed_said[v] = {}
       /\ preferred_days[v] = {} /\ decision(v) = "skip"

\* the same with preferred days that are not empty and do not contain tomorrow
C5_WitnessOtherDay ==
    \E u \in Ids :
       /\ Finished(u) /\ closed_said[u] = {}
       /\ preferred_days[u] # {} /\ tomorrow \notin preferred_days[u]
       /\ decision(u) = "skip"

\* C6: a handler step taken after process_lunch_bookings closed the window
\* shows Expired and changes nothing the pass reads or decides; a user with
\* no response accepted before the close is resolved by the timeout branch.
C6_LateResponseHasNoEffect ==
    /\ [][\A u \in Ids :
             (handle_lunch_response(u) /\ last_job = "booking")
             => /\ shown'[u] = LUNCH_CONFIRMATION_EXPIRED
                /\ UNCHANGED << windowVars, passVars >>]_vars
    /\ [](\A u \in Ids :
             (Resolved(u) /\ closed_said[u] = {})
             => /\ branch[u] \in {"timeout-opt-in", "timeout-opt-out"}
                /\ (decision(u) = "book") = (tomorrow \in preferred_days[u]))

\* C6 witness: a user answered YES after the close, was shown Expired, and has
\* been resolved to skip by the timeout branch
C6_Witness ==
    \E u \in Ids :
       /\ Finished(u)
       /\ shown[u] = LUNCH_CONFIRMATION_EXPIRED
       /\ closed_said[u] = {}
       /\ branch[u] = "timeout-opt-out"
       /\ book_calls[u] = 0

\* C7: whatever the interleaving of the handlers with the booking job, a
\* handler step either accepts (window open: the matching text is shown and
\* the id is in the matching set, in that set alone when it is the id's first
\* response of the window) or rejects (window closed: Expired, sets unchanged);
\* the sets always hold exactly the accepted responses of the window, and the
\* sets the pass reads hold exactly the responses accepted before the close,
\* none being accepted after it.
C7_NoLostNoLateResponse ==
    /\ [][\A u \in Ids :
             handle_lunch_response(u)
             => \/ /\ window_open
                   /\ handler[u] = "lunch_yes"
                   /\ shown'[u] = LUNCH_CONFIRMATION_YES
                   /\ u \in positive_response'
                   /\ said[u] = {} => u \notin negative_response'
                \/ /\ window_open
                   /\ handler[u] = "lunch_no"
                   /\ shown'[u] = LUNCH_CONFIRMATION_NO
                   /\ u \in negative_response'
                   /\ said[u] = {} => u \notin positive_response'
                \/ /\ ~window_open
                   /\ shown'[u] = LUNCH_CONFIRMATION_EXPIRED
                   /\ UNCHANGED << positive_obj, negative_obj >>]_vars
    /\ [](\A u \in Ids :
             /\ (u \in positive_response) = ("yes" \in said[u])
             /\ (u \in negative_response) = ("no" \in said[u]))
    /\ [](resolving
             => \A u \in Ids :
                   /\ (u \in yes_responders) = ("yes" \in closed_said[u])
                   /\ (u \in no_responders) = ("no" \in closed_said[u]))
    /\ [](resolving => \A u \in Ids : said[u] = closed_said[u])

\* C7 witness: while the pass resolves, one id was accepted before the close
\* and is in the sets the pass reads, another was rejected and is in neither
C7_Witness ==
    \E u, v \in Ids :
       /\ resolving
       /\ u # v
       /\ shown[u] = LUNCH_CONFIRMATION_NO /\ u \in no_responders
       /\ u \notin yes_responders
       /\ shown[v] = LUNCH_CONFIRMATION_EXPIRED
       /\ v \notin yes_responders \cup no_responders

\* C7 witness: two handlers are suspended at query.answer() while the pass
\* has closed the window
C7_WitnessRace ==
    /\ resolving
    /\ \A u \in Ids : handler[u] # "idle"

\* C8: no id is in positive_response and negative_response at once.
C8_SetsDisjoint == positive_response \cap negative_response = {}

\* C9: of two different responses accepted from one user in one window, the
\* first decides: YES then NO is resolved to book, NO then YES to skip.
C9_FirstResponseWins ==
    \A u \in Ids :
       (Finished(u) /\ closed_said[u] = {"yes", "no"})
       => /\ closed_first[u] = "yes" => decision(u) = "book"
          /\ closed_first[u] = "no" => (decision(u) = "skip" /\ book_calls[u] = 0)

C11_BookedThoughNotifierFails ==
    (/\ resolving
     /\ \A v \in users : task[v] = "done"
     /\ \A v \in users : timeout_msg[v] # NoMessage => send_raised[v])
    => \A u \in users : decision(u) = "book" => book_calls[u] = 1

\* C12: send_lunch_reminders starts exactly one send_message per user that
\* get_enrolled_users returns and none for any other id; a send that raises
\* is caught, leaves every other task and the window as they were, and no
\* exception leaves the job.
C12_PromptFanOut ==
    /\ [][send_lunch_reminders
             => \A u \in Ids :
                   prompt'[u] = IF u \in get_enrolled_users THEN "sending" ELSE "none"]_vars
    /\ [][\A u \in Ids :
             send_reminder(u)
             => /\ prompt[u] = "sending"
                /\ prompt'[u] \in {"sent", "failed"}
                /\ \A v \in Ids \ {u} : prompt'[v] = prompt[v]
                /\ UNCHANGED << windowVars, reminding >>]_vars
    /\ [][\A u \in Ids :
             (prompt[u] \in {"sent", "failed"} /\ prompt'[u] # prompt[u])
             => (reminders_gathered /\ prompt'[u] = "none")]_vars
    /\ [](\A u \in Ids :
             prompt[u] = "failed" => (reminding /\ window_open /\ ~reminder_raised))
    /\ [](~reminder_raised)

\* C12 witness: the send to one user failed, the send to another user
\* returned, the job goes on and the window is open
C12_Witness ==
    \E u, v \in Ids :
       /\ reminding
       /\ prompt[u] = "failed"
       /\ prompt[v] = "sent"
       /\ window_open
       /\ ~reminder_raised

\* C13: while a send_reminder task of a cycle exists the window of that
\* cycle is open with the sets holding that cycle's responses alone, and from
\* the start of the reminder job to the start of the booking job the window
\* is open: no handler step in between shows Expired.
C13_OpenBeforeFirstPrompt ==
    /\ [](\A u \in Ids : prompt[u] # "none" => window_open)
    /\ [](last_job = "reminder" => window_open)
    /\ [][send_lunch_reminders
             => /\ window_open'
                /\ positive_response' = {} /\ negative_response' = {}
                /\ \A u \in Ids : prompt[u] = "none"]_vars
    /\ [][\A u \in Ids :
             (handle_lunch_response(u) /\ last_job = "reminder")
             => shown'[u] \in {LUNCH_CONFIRMATION_YES, LUNCH_CONFIRMATION_NO}]_vars

\* C13 witness: a user answered a prompt while the prompt to another user was
\* still being sent, and the answer was accepted
C13_Witness ==
    \E u, v \in Ids :
       /\ reminding
       /\ prompt[u] = "sent"
       /\ shown[u] = LUNCH_CONFIRMATION_YES /\ u \in positive_response
       /\ prompt[v] = "sending"

\* C14: the step that starts send_lunch_reminders leaves both sets empty and
\* window_open true, whatever they were before; an id with no response
\* accepted in the current window is in neither set, and a user with no
\* response accepted in the window the pass closed is resolved by the timeout
\* branch, whatever the user answered in an earlier cycle.
C14_OpenClearsWindow ==
    /\ [][send_lunch_reminders
             => /\ positive_response' = {}
                /\ negative_response' = {}
                /\ window_open' = TRUE]_vars
    /\ [](\A u \in Ids :
             said[u] = {} => u \notin positive_response \cup negative_response)
    /\ [](\A u \in Ids :
             (Resolved(u) /\ closed_said[u] = {})
             => /\ u \notin yes_responders \cup no_responders
                /\ branch[u] = IF tomorrow \in preferred_days[u]
                               THEN "timeout-opt-in" ELSE "timeout-opt-out")

\* C14 witness: a user whose YES of an earlier cycle is still on the screen
\* said nothing in the cycle the pass closed and is resolved to skip by the
\* timeout branch
C14_Witness ==
    \E u \in Ids :
       /\ Finished(u)
       /\ shown[u] = LUNCH_CONFIRMATION_YES
       /\ closed_said[u] = {}
       /\ branch[u] = "timeout-opt-out"
       /\ book_calls[u] = 0

\* C15: when no response was accepted between the open and the close of the
\* window, the two sets the pass reads are empty and every user of the pass
\* is resolved by the timeout branch, with a timeout text passed to
\* send_message for each.
C15_SilentCycleAllTimeout ==
    (resolving /\ \A v \in Ids : closed_said[v] = {})
    => /\ yes_responders = {}
       /\ no_responders = {}
       /\ \A u \in users :
             Resolved(u)
             => /\ branch[u] \in {"timeout-opt-in", "timeout-opt-out"}
                /\ timeout_msg[u] \in {LUNCH_TIMEOUT_OPT_IN, LUNCH_TIMEOUT_OPT_OUT}

\* C15 witness: the pass of a cycle without responses has ended for all the
\* enrolled users, every one of them was sent a timeout text
C15_Witness ==
    /\ resolving
    /\ last_job = "booking"
    /\ users = Ids
    /\ \A v \in Ids : closed_said[v] = {}
    /\ \A u \in users :
          /\ Finished(u)
          /\ timeout_msg[u] # NoMessage
          /\ ~send_raised[u]
    /\ \E u \in users : shown[u] # NoMessage

\* C17: a response from an id that get_enrolled_users does not return is
\* recorded like any other while the window is open, and the pass starts no
\* task for an id that is not in the list it read: no send_message and no
\* book_lunch for that id.
C17_StrangerRecordedNotResolved ==
    /\ [][\A u \in Ids :
             (handle_lunch_response(u) /\ window_open /\ u \notin get_enrolled_users)
             => /\ handler[u] = "lunch_yes" => u \in positive_response'
                /\ handler[u] = "lunch_no" => u \in negative_response'
                /\ shown'[u] \in {LUNCH_CONFIRMATION_YES, LUNCH_CONFIRMATION_NO}]_vars
    /\ [][process_lunch_bookings
             => \A u \in Ids \ get_enrolled_users : u \notin users']_vars
    /\ [](\A u \in Ids :
             (resolving /\ u \notin users)
             => /\ task[u] = "none"
                /\ branch[u] = "none"
                /\ timeout_msg[u] = NoMessage
                /\ book_calls[u] = 0)

\* C17 witness: the YES of an id that was not enrolled when it answered is in
\* the set the pass reads, the pass has ended for its users and has done
\* nothing for that id
C17_Witness ==
    \E u \in Ids :
       /\ resolving
       /\ \A v \in users : task[v] = "done"
       /\ said_unenrolled[u]
       /\ u \in yes_responders
       /\ u \notin users
       /\ book_calls[u] = 0 /\ timeout_msg[u] = NoMessage

\* C18: a user who is not enrolled when the pass reads the users is not in
\* its list; for such a user whose response was accepted in the window the
\* pass calls neither book_lunch nor
\* send_message and logs no failure, no exception leaves the pass, and every
\* user of the list is resolved by the branch its own accepted responses and
\* preferred days select.
C18_UnenrolledSkippedSilently ==
    /\ [][process_lunch_bookings
             => \A u \in Ids : ~is_enrolled[u] => (u \notin users' /\ task'[u] = "none")]_vars
    /\ [](\A u \in Ids :
             (resolving /\ closed_said[u] # {} /\ u \notin users)
             => /\ task[u] = "none"
                /\ book_calls[u] = 0
                /\ timeout_msg[u] = NoMessage
                /\ ~send_raised[u] /\ ~book_raised[u] /\ ~logged_failure[u]
                /\ ~pass_raised
                /\ \A v \in users :
                      Resolved(v)
                      => branch[v] = IF "yes" \in closed_said[v] THEN "explicit-yes"
                                     ELSE IF "no" \in closed_said[v] THEN "explicit-no"
                                     ELSE IF tomorrow \in preferred_days[v]
                                          THEN "timeout-opt-in"
                                          ELSE "timeout-opt-out")

\* C18 witness: a user answered YES while enrolled and was unenrolled before
\* the pass read the users; the pass did nothing for that user and booked
\* another user who had answered YES
C18_Witness ==
    \E u, v \in Ids :
       /\ resolving
       /\ "yes" \in closed_said[u] /\ ~said_unenrolled[u]
       /\ u \notin users /\ ~is_enrolled[u]
       /\ book_calls[u] = 0 /\ timeout_msg[u] = NoMessage /\ ~logged_failure[u]
       /\ Finished(v)
       /\ branch[v] = "explicit-yes" /\ book_calls[v] = 1

\* C16: from the step that closes the window to the end of the pass the two
\* sets the pass reads keep the members they had at the close, whatever the
\* handlers and a send_lunch_reminders of the next cycle do in between.
C16_PassReadsSnapshot ==
    /\ [][(resolving /\ resolving')
             => (yes_responders' = yes_responders /\ no_responders' = no_responders)]_vars
    /\ [](resolving
             => \A u \in Ids :
                   /\ (u \in yes_responders) = ("yes" \in closed_said[u])
                   /\ (u \in no_responders) = ("no" \in closed_said[u]))

\* C16 witness: during the pass the next cycle's window was opened and has
\* accepted a YES from an id the pass holds in no_responders alone, while a
\* task of the pass is still to run
C16_Witness ==
    \E u, v \in Ids :
       /\ resolving
       /\ window_open
       /\ u \in positive_response /\ u \notin yes_responders
       /\ u \in no_responders /\ u \notin negative_response
       /\ task[v] \in {"ready", "sending"}

\* C19: whenever the booking job has run, the reminder job of the same day of
\* the schedule has run before it, at least lunch_reminder_timeout minutes
\* earlier.
C19_BookingAfterReminder ==
    booking_at # NoRun
    => /\ window_opened_at # NoRun
       /\ window_opened_at.day = booking_at.day
       /\ booking_at.minute - window_opened_at.minute >= lunch_reminder_timeout

\* C20: the weekday the booking job computes as tomorrow is the day after the
\* day on which the reminder job opened the window it closes, and it is one
\* of the lunch days.
C20_TomorrowFollowsReminder ==
    (booking_at # NoRun /\ window_opened_at # NoRun)
    => /\ tomorrow = tomorrow_of(window_opened_at.day)
       /\ tomorrow \in lunch_days

\* the seven values of strftime("%A").lower()
WeekdayNames == { WeekdayName(d) : d \in 0 .. 6 }

\* C21: PREVIOUS_DAY_MAP has exactly the seven weekday names as keys and no
\* two of them share a number; the number of a lunch day is the one run_daily
\* has for the day before it (Sunday for Monday), and day_before_mapping
\* names that same day; both jobs run on the day before every configured
\* lunch day and on no day that is not followed by a lunch day.
C21_JobsRunOnPreviousDay ==
    /\ DOMAIN PREVIOUS_DAY_MAP = WeekdayNames
    /\ \A a, b \in WeekdayNames : PREVIOUS_DAY_MAP[a] = PREVIOUS_DAY_MAP[b] => a = b
    /\ \A d \in 0 .. 6 :
          /\ PREVIOUS_DAY_MAP[WeekdayName(d)] = run_daily_day((d + 6) % 7)
          /\ day_before_mapping[WeekdayName(d)] = WeekdayName((d + 6) % 7)
    /\ reminder_at # NoRun => tomorrow_of(reminder_at.day) \in lunch_days
    /\ booking_at # NoRun => tomorrow_of(booking_at.day) \in lunch_days
    /\ (tomorrow_of(clock.day) \in lunch_days
        /\ clock.minute > reminder_time(lunch_reminder_time))
       => reminder_at.day = clock.day
    /\ (tomorrow_of(clock.day) \in lunch_days
        /\ clock.minute > booking_time(lunch_reminder_time, lunch_reminder_timeout))
       => booking_at.day = clock.day

\* C21 witness: with monday among the lunch days both jobs have run on a
\* Sunday
C21_Witness ==
    /\ "monday" \in lunch_days
    /\ reminder_at.day = 6
    /\ booking_at.day = 6
    /\ clock.day = 6

\* C22: for every user of the pass whose decision is book and whose timeout
\* text, if any, was sent, the pass has entered the BrowserAutomator method
\* that drives the form, once.
C22_BookDrivesForm ==
    \A u \in Ids :
       (Finished(u) /\ decision(u) = "book" /\ ~send_raised[u])
       => form_calls[u] = 1

\* C23: for a user of the pass whose decision is skip book_lunch is not
\* called and no BrowserAutomator method is entered; after an explicit NO no
\* text is passed to send_message for that user, after a timeout only
\* LUNCH_TIMEOUT_OPT_OUT.
C23_SkipHasNoSideEffect ==
    \A u \in Ids :
       (Resolved(u) /\ decision(u) = "skip")
       => /\ book_calls[u] = 0
          /\ form_calls[u] = 0
          /\ ~book_raised[u]
          /\ branch[u] = "explicit-no" => (timeout_msg[u] = NoMessage /\ ~send_raised[u])
          /\ branch[u] = "timeout-opt-out" => timeout_msg[u] = LUNCH_TIMEOUT_OPT_OUT

\* C23 witness: one user skipped by NO and one by timeout have finished in
\* one pass
C23_Witness ==
    \E u, v \in Ids :
       /\ Finished(u) /\ closed_said[u] = {"no"} /\ branch[u] = "explicit-no"
       /\ timeout_msg[u] = NoMessage /\ book_calls[u] = 0
       /\ Finished(v) /\ closed_said[v] = {} /\ branch[v] = "timeout-opt-out"
       /\ timeout_msg[v] = LUNCH_TIMEOUT_OPT_OUT /\ book_calls[v] = 0

\* C24: a user of the pass resolved by a timeout branch has one text passed
\* to send_message, LUNCH_TIMEOUT_OPT_IN exactly when the decision is book
\* and LUNCH_TIMEOUT_OPT_OUT exactly when it is skip; book_lunch is not
\* called while that send is under way, and the text is not sent again.
C24_TimeoutTextBeforeBooking ==
    /\ [](\A u \in Ids :
             (Resolved(u) /\ branch[u] \in {"timeout-opt-in", "timeout-opt-out"})
             => /\ (timeout_msg[u] = LUNCH_TIMEOUT_OPT_IN) = (decision(u) = "book")
                /\ (timeout_msg[u] = LUNCH_TIMEOUT_OPT_OUT) = (decision(u) = "skip")
                /\ task[u] = "sending" => book_calls[u] = 0
                /\ book_calls[u] = 1 => (task[u] = "done" /\ ~send_raised[u]))
    /\ [][\A u \in Ids :
             timeout_msg[u] # NoMessage
             => (timeout_msg'[u] = timeout_msg[u] \/ gather_returns)]_vars
    /\ [][\A u \in Ids :
             (timeout_msg'[u] # timeout_msg[u] /\ ~gather_returns)
             => (process_user(u) /\ task'[u] = "sending")]_vars

\* C24 witness: the opt-in text was sent to a silent user and book_lunch was
\* then called for that user
C24_Witness ==
    \E u \in Ids :
       /\ Finished(u)
       /\ closed_said[u] = {}
       /\ timeout_msg[u] = LUNCH_TIMEOUT_OPT_IN
       /\ ~send_raised[u]
       /\ book_calls[u] = 1

\* C25: every run of process_lunch_bookings ends: gather returns, which it
\* does only when the task of every user of the pass has ended, by return or
\* by a caught exception, and window_open is false when it returns.
C25_PassFinishes ==
    /\ resolving ~> ~resolving
    /\ [][gather_returns
             => /\ \A u \in users : task[u] = "done"
                /\ ~resolving'
                /\ ~window_open']_vars
    /\ [][(resolving /\ ~resolving') => gather_returns]_vars

\* C25 witness: a pass has ended in which book_lunch raised for a user who
\* had answered YES
C25_Witness ==
    \E u \in Ids :
       /\ last_job = "booking"
       /\ ~resolving
       /\ ~window_open
       /\ is_enrolled[u]
       /\ said[u] = {"yes"}

\* u's response was accepted and its handler has ended
Answered(u) == accepted[u] # "none" /\ response[u] = "idle"

\* C26: once the handler of the first response to the pending confirmation of
\* u has ended, the entry is removed; if that response was YES and get_user
\* found u, register_user_for_lunch has been called exactly once for u; if it
\* was NO, it has not been called.
C26_FirstResponseDecides ==
    \A u \in Ids :
       Answered(u)
       => /\ pending_confirmations[u] = "absent"
          /\ (accepted[u] = LUNCH_YES /\ accepted_user[u] = "found")
                => register_calls[u] = 1
          /\ accepted[u] = LUNCH_NO => register_calls[u] = 0

\* a button press of u has reached the response handler
Responded(u) == accepted[u] # "none" \/ answer[u] = NO_LONGER_ACTIVE

\* the timeout check of u, past its test of the entry, runs to its end
TimeoutStep(u) == timeout_thread[u] = "checked" /\ timeout_thread'[u] = "idle"

C28_NoEventDropped ==
    \A u \in Ids :
       /\ registration_event[u] # "dropped"
       /\ timeout_event[u] # "dropped"

\* C29: when process_lunch_registration runs, the users its loop visits are
\* exactly the enrolled users whose preferred days hold tomorrow's weekday; for
\* each of them, and for nobody else, it hands one registration event to the
\* registration callback and puts one timeout check into the schedule.
C29_PromptedIffPreferred ==
    /\ [][(~registration_ran /\ registration_ran')
             => to_prompt' = { u \in Ids : is_enrolled[u]
                                            /\ target_day' \in preferred_days[u] }]_vars
    /\ [][\A u \in Ids :
             (u \in to_prompt /\ u \notin to_prompt')
             => /\ registration_event[u] = "none"
                /\ registration_event'[u] \in {"queued", "dropped"}
                /\ u \notin timeout_jobs
                /\ u \in timeout_jobs']_vars
    /\ [][\A u \in Ids :
             \/ registration_event[u] = "none" /\ registration_event'[u] # "none"
             \/ u \notin timeout_jobs /\ u \in timeout_jobs'
             => u \in to_prompt /\ u \notin to_prompt']_vars

\* C29 witness: the job has run; one user was handed to the callback and has a
\* timeout check, an enrolled user whose preferred days miss tomorrow has neither
C29_Witness ==
    \E u, v \in Ids :
       /\ registration_ran
       /\ to_prompt = {}
       /\ registration_event[u] # "none"
       /\ u \in timeout_jobs
       /\ target_day \in preferred_days[u]
       /\ is_enrolled[v]
       /\ target_day \notin preferred_days[v]
       /\ registration_event[v] = "none"
       /\ v \notin timeout_jobs

\* C30: however the response handler (event loop) and the timeout check
\* (scheduler thread) interleave on the entry of a user,
\* register_user_for_lunch is called at most once for the user, and no del of
\* the entry raises KeyError, the entry being deleted at most once.
C30_RegisteredAndDeletedOnce ==
    \A u \in Ids :
       /\ register_calls[u] <= 1
       /\ deletions[u] <= 1
       /\ key_error[u] = {}

\* the response handler of u, past its test of the entry, runs to its end
HandlerEnds(u) == response[u] = "editing" /\ response'[u] = "idle"

\* C31: a timeout check stays in the schedule only while it has something to
\* wait for: while no timeout check of u is running, the check of u is in the
\* schedule only if the prompt of u is still on its way or the entry of u is
\* there without a response.
C31_TimeoutCheckRemoved ==
    \A u \in Ids :
       (u \in timeout_jobs /\ timeout_thread[u] = "idle")
       => \/ registration_event[u] \in {"queued", "sending"}
          \/ pending_confirmations[u] = "waiting"

\* C32: each of the two functions that remove an entry removes it when it
\* runs to its end: after the response handler or the timeout check of u has
\* acted on the entry of u, the entry is gone, also for a user who unenrolled
\* after the prompt.
C32_EntryRemoved ==
    [][\A u \in Ids :
          (HandlerEnds(u) \/ TimeoutStep(u))
          => pending_confirmations'[u] = "absent"]_vars

\* C33: a button press of u that finds no entry of u, or an entry that has
\* its response, is answered with the 'no longer active' alert and changes
\* neither the entry, nor the registrations, nor the accepted response; a
\* response is accepted only from an entry without a response, so at most one
\* response of u is ever accepted.
C33_LateResponseRejected ==
    /\ [][\A u \in Ids, data \in {LUNCH_YES, LUNCH_NO} :
             (lunch_response(u, data) /\ pending_confirmations[u] # "waiting")
             => /\ answer'[u] = NO_LONGER_ACTIVE
                /\ UNCHANGED << pending_confirmations, register_calls, deletions,
                                accepted, response, timeout_jobs >>]_vars
    /\ [][\A u \in Ids :
             accepted'[u] # accepted[u]
             => /\ accepted[u] = "none"
                /\ pending_confirmations[u] = "waiting"
                /\ pending_confirmations'[u] = "received"]_vars

\* C33 witness: the response of u was accepted, its handler edited the
\* message and deleted the entry, and a later press of u got the alert
C33_Witness ==
    \E u \in Ids :
       /\ accepted[u] # "none"
       /\ response[u] = "idle"
       /\ pending_confirmations[u] = "absent"
       /\ deletions[u] = 1
       /\ take_lunch_passed[u] = "none"
       /\ key_error[u] = {}
       /\ answer[u] = NO_LONGER_ACTIVE

\* C34: within one run of process_lunch_bookings book_lunch is called at most
\* once for a user, and only for users of the pass, also for a user whose id
\* is in both positive_response and negative_response.
C34_BookedAtMostOnce ==
    \A u \in Ids :
       /\ book_calls[u] <= 1
       /\ book_calls[u] = 1 => (resolving /\ u \in users)

\* C34 witness: the task of a user who had answered both YES and NO has
\* ended, and book_lunch was called once for the user
C34_Witness ==
    \E u \in Ids :
       /\ Finished(u)
       /\ closed_said[u] = {"yes", "no"}
       /\ u \in yes_responders
       /\ u \in no_responders
       /\ book_calls[u] = 1

\* C35: until send_lunch_reminders has opened a window for the first time,
\* the window is closed and both sets are empty, and every response the
\* handler treats is answered with the Expired text and recorded in neither
\* set.
C35_ClosedAndEmptyAtStart ==
    /\ [](~opened => /\ ~window_open
                     /\ positive_response = {}
                     /\ negative_response = {}
                     /\ \A u \in Ids : said[u] = {})
    /\ [][\A u \in Ids :
             (handle_lunch_response(u) /\ ~opened)
             => /\ shown'[u] = LUNCH_CONFIRMATION_EXPIRED
                /\ positive_response' = {}
                /\ negative_response' = {}]_vars

\* C35 witness: no window has been opened yet, a booking pass has already run,
\* and a response was answered with the Expired text
C35_Witness ==
    \E u \in Ids :
       /\ ~opened
       /\ last_job = "booking"
       /\ handler[u] = "idle"
       /\ shown[u] = LUNCH_CONFIRMATION_EXPIRED
       /\ positive_response = {}
       /\ negative_response = {}

\* the step changes the row of u in the users table as add_user does
RowWritten(u) ==
    \/ preferred_days'[u] # preferred_days[u]
    \/ is_enrolled'[u] /\ ~is_enrolled[u]
    \/ is_enrolled'[u] /\ is_verified[u] /\ ~is_verified'[u]

\* C37: the conversation of u moves NAME, EMAIL, DIETARY_PREFERENCE, DAYS in
\* this order or ends; it leaves NAME only with a name of at least 2
\* characters and EMAIL only with an address matching the pattern; add_user
\* writes the row of u only in the step that ends the conversation from DAYS
\* with a non-empty selection, which becomes the preferred days; from DAYS
\* with nothing selected, and by /cancel in any state, no row is written.
C37_EnrollmentOrder ==
    /\ [][\A u \in Ids :
             conversation'[u] # conversation[u]
             => << conversation[u], conversation'[u] >> \in
                   { << "END", "NAME" >>, << "NAME", "EMAIL" >>,
                     << "EMAIL", "DIETARY_PREFERENCE" >>,
                     << "DIETARY_PREFERENCE", "DAYS" >>,
                     << "NAME", "END" >>, << "EMAIL", "END" >>,
                     << "DIETARY_PREFERENCE", "END" >>, << "DAYS", "END" >> }]_vars
    /\ [][\A u \in Ids :
             (conversation[u] = "NAME" /\ conversation'[u] = "EMAIL")
             => full_name'[u] = << "a", "l" >>]_vars
    /\ [][\A u \in Ids :
             (conversation[u] = "EMAIL" /\ conversation'[u] = "DIETARY_PREFERENCE")
             => /\ email'[u] = << "a", "@", "b", ".", "c", "o" >>
                /\ full_name'[u] = << "a", "l" >>]_vars
    /\ [][\A u \in Ids :
             RowWritten(u)
             => /\ conversation[u] = "DAYS"
                /\ conversation'[u] = "END"
                /\ selected_days[u] # {}
                /\ preferred_days'[u] = selected_days[u]
                /\ full_name[u] = << "a", "l" >>
                /\ email[u] = << "a", "@", "b", ".", "c", "o" >>
                /\ dietary_preference[u] \in {"veg", "non_veg"}]_vars
    /\ [][\A u \in Ids :
             cancel_enrollment(u)
             => /\ conversation'[u] = "END"
                /\ UNCHANGED dbVars]_vars

\* C37 witness: a user has been enrolled through the conversation with one
\* selected day and waits for approval
C37_Witness ==
    \E u \in Ids :
       /\ conversation[u] = "END"
       /\ is_enrolled[u]
       /\ ~is_verified[u]
       /\ preferred_days[u] = {"wednesday"}

\* the row of u has is_enrolled and is_verified set
EnrolledAndVerified(u) == is_enrolled[u] /\ is_verified[u]

\* C36: each trigger takes exactly the users whose row is enrolled and
\* verified when it runs: they and no others get a prompt at the reminder
\* and a task at the booking pass, a prompt is sent and book_lunch is called
\* only for a user the running trigger took.  The row add_user writes is not
\* verified, only approve_user verifies a row, a row that becomes enrolled is
\* not verified, and /unenroll and reject_user leave the row not enrolled:
\* so a new or re-enrolled user is passed over by every trigger until
\* approve_user has run, and a removed user by every later trigger.
C36_OnlyEnrolledAndVerified ==
    /\ [][send_lunch_reminders
             => \A u \in Ids : (prompt'[u] = "sending") = EnrolledAndVerified(u)]_vars
    /\ [][process_lunch_bookings
             => /\ users' = { u \in Ids : EnrolledAndVerified(u) }
                /\ \A u \in Ids : (task'[u] = "ready") = EnrolledAndVerified(u)]_vars
    /\ [][\A u \in Ids :
             /\ (prompt'[u] # prompt[u] /\ prompt'[u] \in {"sent", "failed"})
                   => (reminding /\ prompt[u] = "sending")
             /\ (task'[u] # task[u] /\ task'[u] # "none") => u \in users'
             /\ book_calls'[u] > book_calls[u] => (resolving /\ u \in users)]_vars
    /\ [][\A u \in Ids :
             /\ RowWritten(u) => (is_enrolled'[u] /\ ~is_verified'[u])
             /\ (~is_verified[u] /\ is_verified'[u]) => approve_user(u)
             /\ (~is_enrolled[u] /\ is_enrolled'[u]) => ~is_verified'[u]
             /\ (unenroll_command(u) \/ reject_user(u)) => ~is_enrolled'[u]]_vars

\* C36 witness: a booking pass runs while one user, enrolled again through
\* the conversation and not yet approved, has no task, and another user, whose
\* row is enrolled and verified, has been booked
C36_Witness ==
    \E u, v \in Ids :
       /\ resolving
       /\ is_enrolled[u] /\ ~is_verified[u] /\ preferred_days[u] = {"wednesday"}
       /\ u \notin users /\ task[u] = "none" /\ book_calls[u] = 0
       /\ v \in users /\ book_calls[v] = 1

\* the calls of the try block without the optional click on 'Get Started'
RequiredCalls(log) == SelectSeq(log, LAMBDA call : call # << "click", "Get Started" >>)

\* fill_form has given its caller a value
Returned == form_returned \in {"true", "false"}

\* C38: fill_form returns true only after start, navigate, the email field,
\* Next, Yes, the dietary preference and Next have returned in this order and
\* the 'Thank you!' element has been found; when a step of the try block has
\* raised or the element has not been found, the value it returns is false;
\* a run in which the 'Get Started' button was absent, no step raised and
\* the element was found returns true.
C38_TrueOnlyAfterEveryStep ==
    /\ form_returned = "true"
          => /\ RequiredCalls(form_log) =
                   << << "start" >>,
                      << "navigate", form_args.ia_url >>,
                      << "fill_text_field", form_args.email >>,
                      << "button_click", "Next" >>,
                      << "button_click", "Yes" >>,
                      << "button_click", form_args.dietary_preference >>,
                      << "button_click", "Next" >>,
                      << "is_element_with_text_present", "Thank you!" >> >>
             /\ thank_you = "present"
             /\ step_raised = "none"
    /\ (Returned /\ (step_raised # "none" \/ thank_you # "present"))
          => form_returned = "false"
    /\ (Returned /\ get_started = "absent" /\ step_raised = "none" /\ thank_you = "present")
          => form_returned = "true"

\* C38 witness: fill_form has returned true for the dietary preference
\* "Non Veg" on a page without the 'Get Started' button
C38_Witness ==
    /\ form_returned = "true"
    /\ get_started = "absent"
    /\ form_args.dietary_preference = "Non Veg"
    /\ Len(form_log) = 8

\* C39: stop() is not called before the try block is left and is called
\* exactly once on every way out of fill_form; when fill_form returns a value,
\* the browser it launched is closed and Playwright is stopped.
C39_StoppedExactlyOnce ==
    /\ form_pc \in {"start", "navigate", "get_started", "fill_email", "next", "yes",
                    "dietary", "next_submit", "thank_you", "stop"} => stop_calls = 0
    /\ form_pc = "done" => stop_calls = 1
    /\ Returned => (form_pc = "done" /\ browser # "open" /\ playwright # "started")

\* C39 witness: start raised after it had launched the browser; fill_form has
\* returned false, stop() has run once and has closed that browser
C39_Witness ==
    /\ form_pc = "done"
    /\ step_raised = "start"
    /\ form_returned = "false"
    /\ stop_calls = 1
    /\ browser = "closed"
    /\ playwright = "stopped"

====
